---- MODULE Spec2Model ----
(***************************************************************************)
(* Model of the forecal forecasting pipeline (backend/scripts).            *)
(*                                                                         *)
(*   forecast.py        calendar feature builder, future calendar,         *)
(*                      forecast combiner                                  *)
(*   data_extraction.py stay expansion and daily aggregation               *)
(*   auto_update_data.py  the updater that runs both scripts               *)
(*   revenue_management_app.py  the refresh endpoint and its cache         *)
(*                                                                         *)
(* Dates are day numbers.  Day EndDay is 2026-12-31, the last day of the   *)
(* future calendar; smaller numbers are the days before it.                *)
(***************************************************************************)
EXTENDS Integers, Sequences, FiniteSets, TLC

VARIABLES
    pc,           \* which call is in progress / finished
    hist_df,      \* _build_enrich_calendar_features: argument df
    enrich,       \* _build_enrich_calendar_features: returned frame
    holidays_df,  \* _future_calendar_2026: argument holidays_df
    start_date,   \* _future_calendar_2026: argument start_date
    future,       \* _future_calendar_2026: returned frame
    source_df,    \* reservations handed to the extraction functions
    inventory_per_room_type,  \* build_feature_dataset: inventory map
    maintenance_df,           \* build_feature_dataset: maintenance table
    holidays_set,             \* build_feature_dataset: holiday dates
    events_set,               \* build_feature_dataset: event dates
    fasting_set,              \* build_feature_dataset: fasting dates
    daily,        \* expand_stays_to_daily_rows: returned frame
    features_df,  \* build_feature_dataset: returned frame
    historical_df,        \* combine_forecasts: argument historical_df
    occupancy_forecast,   \* combine_forecasts: argument occupancy_forecast
    arr_forecast,         \* combine_forecasts: argument arr_forecast
    final_df,             \* combine_forecasts: returned frame
    roundtrip_df,         \* combine_forecasts on the historical rows of final_df
    run,          \* number of the pipeline run in progress (0: the earlier one)
    files,        \* data/: the lines of each output file as a reader finds them
    handle,       \* the output file a to_csv call has open, or "closed"
    last_success, \* data/ as the last run that completed left it
    data_cache,   \* RevenueManager.data_cache['dataset']
    model_cols,   \* ml_predict_occupancy_and_arr: columns of X_train
    X_future_arr, \* ml_predict_occupancy_and_arr: design matrix of rf_arr.predict
    updater,      \* auto_update_data.py: position and result of run_data_pipeline
    req,          \* POST /api/refresh: position and result of each request
    caused,       \* script executions that the call of run_data_pipeline caused
    data_dir,     \* data/: which forecast execution wrote each combined table
    combined_cache, \* RevenueManager.data_cache['combined']
    inputs        \* data/: the optional input files that exist

calVars == <<hist_df, enrich, holidays_df, start_date, future>>
aggVars == <<source_df, inventory_per_room_type, maintenance_df, holidays_set,
             events_set, fasting_set, daily, features_df>>
combVars == <<historical_df, occupancy_forecast, arr_forecast, final_df, roundtrip_df>>
runVars == <<run, files, handle, last_success, data_cache>>
mlVars == <<model_cols, X_future_arr>>
serveVars == <<updater, req, caused, data_dir, combined_cache>>
optVars == <<inputs>>
vars == <<pc, calVars, aggVars, combVars, runVars, mlVars, serveVars, optVars>>

\* ------------------------------------------------------------------ bounds
HistDays == 7      \* historical dates lie in 1..HistDays
FutureDays == 6    \* the future calendar spans at most FutureDays days
MaxHol == 2        \* rows of the holiday table
MaxDay == 3        \* arrival and departure timestamps lie on days 1..MaxDay
MaxStays == 1      \* reservations handed to expand_stays_to_daily_rows alone
MaxRes == 2        \* reservations handed to build_feature_dataset
MaxHistRows == 2   \* rows of the historical frame handed to combine_forecasts
MaxFcDays == 1     \* dates of the forecasts handed to combine_forecasts
MaxRuns == 2       \* pipeline runs after the earlier one
FileLines == 2     \* lines of an output file
MaxRequests == 1   \* refresh requests the backend receives from clients

EndDay == HistDays + FutureDays

\* 10**9, the "no holiday in this direction" offset of the distance scans
INF == 1000000000

NULL == "null"

\* ------------------------------------------------------------- array helpers
Max(a, b) == IF a >= b THEN a ELSE b
Min(a, b) == IF a <= b THEN a ELSE b

\* The array holding f[1], ..., f[n]
RECURSIVE Arr(_, _)
Arr(f, n) == IF n = 0 THEN <<>> ELSE Append(Arr(f, n - 1), f[n])

\* np.r_[False, a[:-1]]: the left neighbour's value, False at the first row
ShiftRight(a) == Arr([i \in 1..Len(a) |-> IF i = 1 THEN FALSE ELSE a[i - 1]], Len(a))

\* np.r_[a[1:], False]: the right neighbour's value, False at the last row
ShiftLeft(a) == Arr([i \in 1..Len(a) |-> IF i = Len(a) THEN FALSE ELSE a[i + 1]], Len(a))

\* date.weekday(): Monday = 0 ... Sunday = 6; 2026-12-31 (EndDay) is a Thursday
Weekday(d) == (d + 6 * EndDay + 3) % 7

\* ------------------------------------------------- calendar feature builder
\* seed_hol = Is_NationalHoliday | Is_Weekend
SeedHol(nat, we) == Arr([i \in 1..Len(nat) |-> nat[i] \/ we[i]], Len(nat))

\* is_bridge = (~seed_hol) & left_seed & right_seed
IsBridgeEither(seed) ==
    LET left_seed  == ShiftRight(seed)
        right_seed == ShiftLeft(seed)
    IN  Arr([i \in 1..Len(seed) |-> ~seed[i] /\ (left_seed[i] \/ right_seed[i])],
            Len(seed))
IsBridge(seed) ==
    LET left_seed  == ShiftRight(seed)
        right_seed == ShiftLeft(seed)
    IN  Arr([i \in 1..Len(seed) |-> ~seed[i] /\ left_seed[i] /\ right_seed[i]],
            Len(seed))

\* base = is_nat | is_br
Base(nat, br) == Arr([i \in 1..Len(nat) |-> nat[i] \/ br[i]], Len(nat))

\* wk1 = is_we & (left_base | right_base)
Wk1(we, base) ==
    LET left_base  == ShiftRight(base)
        right_base == ShiftLeft(base)
    IN  Arr([i \in 1..Len(we) |-> we[i] /\ (left_base[i] \/ right_base[i])], Len(we))

\* wk2 = is_we & (left_wk1 | right_wk1)
Wk2NoWeekend(we, wk1) ==
    LET left_wk1  == ShiftRight(wk1)
        right_wk1 == ShiftLeft(wk1)
    IN  Arr([i \in 1..Len(we) |-> left_wk1[i] \/ right_wk1[i]], Len(we))
Wk2(we, wk1) ==
    LET left_wk1  == ShiftRight(wk1)
        right_wk1 == ShiftLeft(wk1)
    IN  Arr([i \in 1..Len(we) |-> we[i] /\ (left_wk1[i] \/ right_wk1[i])], Len(we))

\* is_holiday_final = base | wk1 | wk2
IsHolidayFinal(nat, we) ==
    LET br   == IsBridge(SeedHol(nat, we))
        base == Base(nat, br)
        wk1  == Wk1(we, base)
        wk2  == Wk2(we, wk1)
    IN  Arr([i \in 1..Len(nat) |-> base[i] \/ wk1[i] \/ wk2[i]], Len(nat))

\* block_id = (~is_holiday_final).cumsum()
RECURSIVE BlockId(_)
BlockId(hol) ==
    IF hol = <<>> THEN <<>>
    ELSE LET n    == Len(hol)
             init == BlockId(SubSeq(hol, 1, n - 1))
             prev == IF n = 1 THEN 0 ELSE init[n - 1]
         IN  Append(init, prev + (IF hol[n] THEN 0 ELSE 1))

\* grp = the masked (holiday) rows grouped by block_id; transform('size')
HolidayDuration(hol) ==
    LET bid == BlockId(hol)
    IN  Arr([i \in 1..Len(hol) |->
                IF hol[i]
                THEN Cardinality({j \in 1..Len(hol) : hol[j] /\ bid[j] = bid[i]})
                ELSE 0],
            Len(hol))

\* grp.cumcount() + 1
DaysOfHolidayZeroBased(hol) ==
    LET bid == BlockId(hol)
    IN  Arr([i \in 1..Len(hol) |->
                IF hol[i]
                THEN Cardinality({j \in 1..(i - 1) : hol[j] /\ bid[j] = bid[i]})
                ELSE 0],
            Len(hol))
DaysOfHoliday(hol) ==
    LET bid == BlockId(hol)
    IN  Arr([i \in 1..Len(hol) |->
                IF hol[i]
                THEN Cardinality({j \in 1..(i - 1) : hol[j] /\ bid[j] = bid[i]}) + 1
                ELSE 0],
            Len(hol))

\* for i in range(n): if is_hol[i]: last = i; dist_fwd[i] = i - last
\* Row i of the model is index i - 1 of the array.
RECURSIVE FwdLoop(_, _, _, _)
FwdLoop(hol, i, last, dist) ==
    IF i > Len(hol) THEN dist
    ELSE LET l == IF hol[i] THEN i - 1 ELSE last
         IN  FwdLoop(hol, i + 1, l, Append(dist, (i - 1) - l))

\* last = -INF before the loop
DistFwdFromZero(hol) == FwdLoop(hol, 1, 0, <<>>)
DistFwd(hol) == FwdLoop(hol, 1, -INF, <<>>)

\* for i in range(n - 1, -1, -1): if is_hol[i]: last = i; dist_bwd[i] = last - i
RECURSIVE BwdLoop(_, _, _, _)
BwdLoop(hol, i, last, dist) ==
    IF i < 1 THEN dist
    ELSE LET l == IF hol[i] THEN i - 1 ELSE last
         IN  BwdLoop(hol, i - 1, l, <<l - (i - 1)>> \o dist)

\* last = INF before the loop
DistBwd(hol) == BwdLoop(hol, Len(hol), INF, <<>>)

\* dist = np.minimum(dist_fwd, dist_bwd); dist[is_hol] = 0
DistanceForwardOnly(hol) ==
    LET dist_fwd == DistFwd(hol)
    IN  Arr([i \in 1..Len(hol) |-> IF hol[i] THEN 0 ELSE dist_fwd[i]], Len(hol))
DistanceToHoliday(hol) ==
    LET dist_fwd == DistFwd(hol)
        dist_bwd == DistBwd(hol)
    IN  Arr([i \in 1..Len(hol) |-> IF hol[i] THEN 0 ELSE Min(dist_fwd[i], dist_bwd[i])],
            Len(hol))

\* The derived columns both builders append to their base rows
\* (Date, Is_NationalHoliday, Is_Weekend, Is_Event, Is_SchoolHoliday).
Engineer(rows) ==
    LET n    == Len(rows)
        nat  == Arr([i \in 1..n |-> rows[i].Is_NationalHoliday], n)
        we   == Arr([i \in 1..n |-> rows[i].Is_Weekend], n)
        br   == IsBridge(SeedHol(nat, we))
        hol  == IsHolidayFinal(nat, we)
        dur  == HolidayDuration(hol)
        pos  == DaysOfHoliday(hol)
        dist == DistanceToHoliday(hol)
    IN  Arr([i \in 1..n |->
                [Date                |-> rows[i].Date,
                 Is_NationalHoliday  |-> rows[i].Is_NationalHoliday,
                 Is_Weekend          |-> rows[i].Is_Weekend,
                 Is_Event            |-> rows[i].Is_Event,
                 Is_SchoolHoliday    |-> rows[i].Is_SchoolHoliday,
                 Is_Bridge           |-> br[i],
                 Is_Holiday          |-> hol[i],
                 Holiday_Duration    |-> dur[i],
                 Days_of_Holiday     |-> pos[i],
                 Distance_to_Holiday |-> dist[i],
                 Day_of_Week         |-> Weekday(rows[i].Date)]],
            n)

\* ---- _build_enrich_calendar_features(df) --------------------------------
\* df holds one row per (Date, Room Type, Arrangement) of the processed
\* dataset, restricted to the columns Date, Occupancy Rate, Is_Holiday,
\* Is_Weekend, Is_Event, Is_SchoolHoliday.  Occupancy Rate is carried along
\* unchanged and takes no part in the calendar features.

\* groupby([...]).size().reset_index(): the distinct rows of df
DistinctRows(df) == {df[i] : i \in 1..Len(df)}

B2N(b) == IF b THEN 1 ELSE 0

\* groupby sorts its keys lexicographically, sort_values('Date') keeps Date first
DateKey(r) ==
    16 * r.Date + 8 * B2N(r.Is_Holiday) + 4 * B2N(r.Is_Weekend)
        + 2 * B2N(r.Is_Event) + B2N(r.Is_SchoolHoliday)

RECURSIVE SortRows(_)
SortRows(S) ==
    IF S = {} THEN <<>>
    ELSE LET m == CHOOSE r \in S : \A q \in S : DateKey(r) <= DateKey(q)
         IN  <<m>> \o SortRows(S \ {m})

\* rename(columns={'Is_Holiday': 'Is_NationalHoliday'})
RenameHoliday(r) ==
    [Date               |-> r.Date,
     Is_NationalHoliday |-> r.Is_Holiday,
     Is_Weekend         |-> r.Is_Weekend,
     Is_Event           |-> r.Is_Event,
     Is_SchoolHoliday   |-> r.Is_SchoolHoliday]

BuildEnrichCalendarFeatures(df) ==
    LET sorted == SortRows(DistinctRows(df))
    IN  Engineer(Arr([i \in 1..Len(sorted) |-> RenameHoliday(sorted[i])], Len(sorted)))

\* ---- _future_calendar_2026(holidays_df, start_date) ----------------------
\* pd.date_range(start=start_2026, end=end_2026, freq='D')
DateRange(first, last) ==
    IF first > last THEN <<>> ELSE [i \in 1..(last - first + 1) |-> first + i - 1]

\* holidays[holidays['Date'] == date], in table order
RECURSIVE InfoRows(_, _)
InfoRows(holidays, date) ==
    IF holidays = <<>> THEN <<>>
    ELSE (IF Head(holidays).Date = date THEN <<Head(holidays)>> ELSE <<>>)
            \o InfoRows(Tail(holidays), date)

NationalKinds == {"national", "joint", "national holiday", "joint holiday"}
SchoolKinds   == {"school", "school holiday"}
EventKinds    == {"event"}

\* one iteration of "for date in future_cal"
CalendarRow(holidays, date) ==
    LET info == InfoRows(holidays, date)
        kind == IF info = <<>> THEN NULL ELSE info[1].Kind
    IN  [Date               |-> date,
         Is_NationalHoliday |-> info # <<>> /\ kind \in NationalKinds,
         Is_Weekend         |-> Weekday(date) >= 5,
         Is_Event           |-> info # <<>> /\ kind \in EventKinds,
         Is_SchoolHoliday   |-> info # <<>> /\ kind \in SchoolKinds]

FutureCalendar2026(holidays, start) ==
    LET cal == DateRange(start, EndDay)
    IN  Engineer(Arr([i \in 1..Len(cal) |-> CalendarRow(holidays, cal[i])], Len(cal)))

\* ------------------------------------------------------------------ inputs
DefaultStartDate == HistDays + 1

\* Historical dates may be missing (a date without paid stays has no row of
\* the processed dataset); Is_Weekend is the date's weekday.
HistRow(d, hol) ==
    [Date |-> d, Is_Holiday |-> hol, Is_Weekend |-> Weekday(d) >= 5,
     Is_Event |-> FALSE, Is_SchoolHoliday |-> FALSE]

\* 1 + d % 2 rows per date: dates carry one or two (room type) rows
RECURSIVE HistTable(_, _)
HistTable(f, d) ==
    IF d > HistDays THEN <<>>
    ELSE (CASE f[d] = "absent" -> <<>>
            [] OTHER -> [k \in 1..(1 + (d % 2)) |-> HistRow(d, f[d] = "holiday")])
         \o HistTable(f, d + 1)

HistInputs ==
    {HistTable(f, 1) : f \in [1..HistDays -> {"absent", "plain", "holiday"}]}
        \ {<<>>}

Kinds == {"national", "joint", "school", "event", "fasting"}
FutureDates == (HistDays + 1)..EndDay
HolidayRows == [Date : FutureDates, Kind : Kinds]

HolidayTables == UNION {[1..n -> HolidayRows] : n \in 0..MaxHol}

\* ----------------------------------------------------------------- actions
\* The output files of the pipeline, and what run r writes to each: lines
\* that name the file, the run and their position
Artifacts ==
    {"dataset_processed", "predictions", "arr_forecast_2026",
     "enhanced_forecasting_2026"}
Content(r, name) == [k \in 1..FileLines |-> [file |-> name, run |-> r, line |-> k]]
FilesOfRun(r) == [name \in Artifacts |-> Content(r, name)]

RunIdle ==
    /\ run = 0
    /\ files = FilesOfRun(0)
    /\ handle = "closed"
    /\ last_success = FilesOfRun(0)
    /\ data_cache = Content(0, "dataset_processed")

\* Request 0 is the POST that run_data_pipeline sends; the others come from
\* clients of the backend
Requests == 0..MaxRequests

\* A refresh request that has not been received
NoRequest ==
    [at |-> "none", busy |-> FALSE, failed |-> FALSE, wrote |-> 0, response |-> "none"]

ServeIdle ==
    /\ updater = [at |-> "idle", busy |-> FALSE, extraction |-> "none",
                  forecast |-> "none", result |-> "none"]
    /\ req = [r \in Requests |-> NoRequest]
    /\ caused = [extraction |-> 0, forecast |-> 0]
    /\ data_dir = [enhanced_forecasting_2026 |-> 0, combined_df |-> 0]
    /\ combined_cache = 0

\* The optional input files of the two scripts; every one is there
OptionalInputs == {"holidays_info", "maintenance_cleaned"}
OptIdle == inputs = OptionalInputs

MlIdle ==
    /\ model_cols = <<>>
    /\ X_future_arr = <<>>

AggIdle ==
    /\ source_df = <<>>
    /\ inventory_per_room_type = <<>>
    /\ maintenance_df = <<>>
    /\ holidays_set = {}
    /\ events_set = {}
    /\ fasting_set = {}
    /\ daily = <<>>
    /\ features_df = <<>>

CombIdle ==
    /\ historical_df = <<>>
    /\ occupancy_forecast = <<>>
    /\ arr_forecast = <<>>
    /\ final_df = <<>>
    /\ roundtrip_df = <<>>

InitCal ==
    /\ RunIdle
    /\ MlIdle
    /\ OptIdle
    /\ ServeIdle
    /\ AggIdle
    /\ CombIdle
    /\ enrich = <<>>
    /\ future = <<>>
    /\ \/ /\ pc = "enrich_call"
          /\ hist_df \in HistInputs
          /\ holidays_df = <<>>
          /\ start_date = DefaultStartDate
       \/ /\ pc = "future_call"
          /\ hist_df = <<>>
          /\ holidays_df \in HolidayTables
          /\ start_date \in (HistDays + 1)..(EndDay + 1)

BuildEnrich ==
    /\ pc = "enrich_call"
    /\ enrich' = BuildEnrichCalendarFeatures(hist_df)
    /\ pc' = "enrich_done"
    /\ UNCHANGED <<mlVars, optVars, serveVars, runVars, hist_df, holidays_df, start_date, future, aggVars, combVars>>

\* An empty date range leaves pd.DataFrame(rows) without columns, and
\* future['Is_NationalHoliday'] raises KeyError.
FutureCalendar ==
    /\ pc = "future_call"
    /\ IF start_date > EndDay
       THEN /\ pc' = "future_error"
            /\ UNCHANGED future
       ELSE /\ future' = FutureCalendar2026(holidays_df, start_date)
            /\ pc' = "future_done"
    /\ UNCHANGED <<mlVars, optVars, serveVars, runVars, hist_df, holidays_df, start_date, enrich, aggVars, combVars>>

NextCal == BuildEnrich \/ FutureCalendar

SpecCal == InitCal /\ [][NextCal]_vars

\* ------------------------------------------------- calendar feature claims
\* The frames the two builders returned so far
CalendarFrames == {enrich, future}

RowIsSeed(fr, i) == fr[i].Is_NationalHoliday \/ fr[i].Is_Weekend
RowIsBase(fr, i) == fr[i].Is_NationalHoliday \/ fr[i].Is_Bridge
RowInFrame(fr, i) == i >= 1 /\ i <= Len(fr)

\* C1: on every row of the frames returned by the calendar feature builder and
\* by the future calendar, Distance_to_Holiday is 0 exactly when Is_Holiday
\* is true.
C1_DistanceZeroIffHoliday ==
    \A fr \in CalendarFrames : \A i \in 1..Len(fr) :
        (fr[i].Distance_to_Holiday = 0) <=> fr[i].Is_Holiday

\* A future calendar with a holiday row, a row next to it and a row further away
C1_Witness ==
    /\ pc = "future_done"
    /\ \E i, j, k \in 1..Len(future) :
        /\ future[i].Is_Holiday /\ future[i].Distance_to_Holiday = 0
        /\ ~future[j].Is_Holiday /\ future[j].Distance_to_Holiday = 1
        /\ ~future[k].Is_Holiday /\ future[k].Distance_to_Holiday > 1

\* First and last row of the maximal run of Is_Holiday rows around row i
RunFirst(fr, i) ==
    CHOOSE a \in 1..i :
        /\ \A k \in a..i : fr[k].Is_Holiday
        /\ (a = 1 \/ ~fr[a - 1].Is_Holiday)
RunLast(fr, i) ==
    CHOOSE b \in i..Len(fr) :
        /\ \A k \in i..b : fr[k].Is_Holiday
        /\ (b = Len(fr) \/ ~fr[b + 1].Is_Holiday)

\* C2: every Is_Holiday row carries the length of its maximal run of
\* Is_Holiday rows as Holiday_Duration and its 1-based ordinal in that run as
\* Days_of_Holiday (so 1 <= position <= length); every other row carries 0
\* for both.
C2_BlockLengthAndPosition ==
    \A fr \in CalendarFrames : \A i \in 1..Len(fr) :
        IF fr[i].Is_Holiday
        THEN /\ fr[i].Holiday_Duration = RunLast(fr, i) - RunFirst(fr, i) + 1
             /\ fr[i].Days_of_Holiday = i - RunFirst(fr, i) + 1
             /\ 1 <= fr[i].Days_of_Holiday
             /\ fr[i].Days_of_Holiday <= fr[i].Holiday_Duration
        ELSE /\ fr[i].Holiday_Duration = 0
             /\ fr[i].Days_of_Holiday = 0

\* A historical frame with two runs of different length, one of them of three
\* rows or more, seen at its middle row, and a row outside any run
C2_Witness ==
    /\ pc = "enrich_done"
    /\ \E i, j, k \in 1..Len(enrich) :
        /\ enrich[i].Holiday_Duration >= 3 /\ enrich[i].Days_of_Holiday = 2
        /\ enrich[j].Is_Holiday /\ enrich[j].Holiday_Duration = 1
        /\ ~enrich[k].Is_Holiday /\ j < k /\ k < i

\* C3: a row is flagged bridge exactly when it is neither a national holiday
\* nor a weekend and both the row before it and the row after it are seed
\* (national holiday or weekend) rows.
C3_BridgeIffBetweenSeeds ==
    \A fr \in CalendarFrames : \A i \in 1..Len(fr) :
        fr[i].Is_Bridge <=>
            /\ ~RowIsSeed(fr, i)
            /\ RowInFrame(fr, i - 1) /\ RowIsSeed(fr, i - 1)
            /\ RowInFrame(fr, i + 1) /\ RowIsSeed(fr, i + 1)

\* A future calendar holding [H, -, H] with the middle row flagged, and an
\* ordinary row with a seed on one side only that is not flagged
C3_Witness ==
    /\ pc = "future_done"
    /\ \E i, j \in 2..(Len(future) - 1) :
        /\ RowIsSeed(future, i - 1) /\ ~RowIsSeed(future, i) /\ RowIsSeed(future, i + 1)
        /\ future[i].Is_Bridge
        /\ RowIsSeed(future, j - 1) /\ ~RowIsSeed(future, j) /\ ~RowIsSeed(future, j + 1)
        /\ ~future[j].Is_Bridge

\* Pass 1 and pass 2 of the holiday expansion, read off the returned rows
RowPass1(fr, i) ==
    /\ fr[i].Is_Weekend
    /\ \E j \in {i - 1, i + 1} : RowInFrame(fr, j) /\ RowIsBase(fr, j)
RowPass2(fr, i) ==
    /\ fr[i].Is_Weekend
    /\ \E j \in {i - 1, i + 1} : RowInFrame(fr, j) /\ RowPass1(fr, j)
BaseWithinTwo(fr, i) ==
    \E j \in (i - 2)..(i + 2) : RowInFrame(fr, j) /\ RowIsBase(fr, j)

\* C4: Is_Holiday is true exactly on base rows (national holiday or bridge),
\* weekend rows next to a base row and weekend rows next to such a weekend
\* row; so a holiday row that is not base is a weekend row with a base row at
\* most two rows away, and a weekend row with no base row within two rows is
\* not a holiday.
C4_HolidayIsBaseOrTwoPasses ==
    \A fr \in CalendarFrames : \A i \in 1..Len(fr) :
        /\ fr[i].Is_Holiday <=>
              (RowIsBase(fr, i) \/ RowPass1(fr, i) \/ RowPass2(fr, i))
        /\ (fr[i].Is_Holiday /\ ~RowIsBase(fr, i)) =>
              (fr[i].Is_Weekend /\ BaseWithinTwo(fr, i))
        /\ (fr[i].Is_Weekend /\ ~BaseWithinTwo(fr, i)) => ~fr[i].Is_Holiday

\* A future calendar with a weekend row that only pass 2 marks as a holiday
C4_Witness ==
    /\ pc = "future_done"
    /\ \E i \in 1..Len(future) :
        /\ future[i].Is_Holiday
        /\ ~RowIsBase(future, i) /\ ~RowPass1(future, i) /\ RowPass2(future, i)

\* =========================================================================
\* data_extraction.py: stay expansion and daily aggregation
\* =========================================================================
\* Text values are tuples of characters; None is a tuple that is no text.
\* A timestamp is a number of half days: 2 * day at midnight, 2 * day + 1 at
\* noon.  A raw date cell is [t |-> "ts", v |-> timestamp] or unparseable
\* text [t |-> "bad", v |-> 0]; a raw rate cell is [t |-> "num", v |-> rate],
\* non-numeric text [t |-> "str", v |-> 0] or missing [t |-> "nan", v |-> 0].
None == <<"None">>
NaT == [t |-> "nat", v |-> 0]
NoRate == [t |-> "none", v |-> 0]

UpperCase == <<"A", "B", "C", "D", "E", "F", "G", "H", "I", "J", "K", "L", "M",
               "N", "O", "P", "Q", "R", "S", "T", "U", "V", "W", "X", "Y", "Z">>
LowerCase == <<"a", "b", "c", "d", "e", "f", "g", "h", "i", "j", "k", "l", "m",
               "n", "o", "p", "q", "r", "s", "t", "u", "v", "w", "x", "y", "z">>

\* str.upper() on one character
Upper(c) ==
    IF \E i \in 1..Len(LowerCase) : LowerCase[i] = c
    THEN UpperCase[CHOOSE i \in 1..Len(LowerCase) : LowerCase[i] = c]
    ELSE c

\* str.strip()
RECURSIVE LStrip(_)
LStrip(str) ==
    IF str # <<>> /\ Head(str) = " " THEN LStrip(Tail(str)) ELSE str
RECURSIVE RStrip(_)
RStrip(str) ==
    IF str # <<>> /\ str[Len(str)] = " "
    THEN RStrip(SubSeq(str, 1, Len(str) - 1)) ELSE str
Strip(str) == RStrip(LStrip(str))

Deluxe         == <<"D", "e", "l", "u", "x", "e">>
ExecutiveSuite == <<"E", "x", "e", "c", "u", "t", "i", "v", "e", " ",
                    "S", "u", "i", "t", "e">>
Suite          == <<"S", "u", "i", "t", "e">>
FamilySuite    == <<"F", "a", "m", "i", "l", "y", " ", "S", "u", "i", "t", "e">>

\* _map_room_type(raw)
MapRoomType(raw) ==
    IF raw = None \/ Len(raw) = 0 THEN None
    ELSE LET stripped == Strip(raw)
             first    == IF stripped = <<>> THEN "" ELSE Upper(stripped[1])
         IN  CASE first = "D" -> Deluxe
               [] first = "E" -> ExecutiveSuite
               [] first = "S" -> Suite
               [] first = "B" -> ExecutiveSuite
               [] first = "F" -> FamilySuite
               [] OTHER -> None

\* final_room = mapped_room if mapped_room else (the stripped raw text, if any)
FinalRoom(raw) ==
    LET mapped_room == MapRoomType(raw)
    IN  IF mapped_room # None THEN mapped_room
        ELSE IF raw # None /\ Strip(raw) # <<>> THEN Strip(raw) ELSE None

\* pd.to_datetime(..., errors="coerce")
ToDatetimeFirstDay(cell) == IF cell.t = "ts" THEN cell ELSE [t |-> "ts", v |-> 2]
ToDatetime(cell) == IF cell.t = "ts" THEN cell ELSE NaT

\* Timestamp.normalize(): midnight of the same day
Normalize(ts) == ts - (ts % 2)

\* Timestamp.date()
DateOf(ts) == ts \div 2

\* ts - pd.Timedelta(days=1)
MinusOneDay(ts) == ts - 2

\* nightly_rate: float(room_rate) when room_rate is not NaN and converts
NightlyRate(cell) == IF cell.t = "num" THEN cell ELSE NoRate

\* d_range = pd.date_range(start=arrival.normalize(),
\*                         end=(depart - 1 day).normalize(), freq="D")
StayDatesInclusive(arrival, depart) ==
    DateRange(DateOf(Normalize(arrival)), DateOf(Normalize(depart)))
StayDates(arrival, depart) ==
    DateRange(DateOf(Normalize(arrival)), DateOf(Normalize(MinusOneDay(depart))))

\* The rows one reservation appends: one per date of d_range.  stay is the
\* position of the reservation in df; it is bookkeeping of the model and no
\* column of the frame.
StayRows(row, k) ==
    LET arrival == ToDatetime(row.arrival_date)
        depart  == ToDatetime(row.depart_date)
    IN  IF arrival = NaT \/ depart = NaT THEN <<>>       \* dropna(subset=...)
        ELSE IF depart.v <= arrival.v THEN <<>>           \* continue
        ELSE LET d_range == StayDates(arrival.v, depart.v)
             IN  Arr([i \in 1..Len(d_range) |->
                        [date         |-> d_range[i],
                         room_type    |-> FinalRoom(row.room_type),
                         arrangement  |-> row.arrangement,
                         room_number  |-> row.room_number,
                         segment      |-> row.segment,
                         nightly_rate |-> NightlyRate(row.room_rate),
                         stay         |-> k]],
                     Len(d_range))

\* for _, row in work.iterrows(): ...
RECURSIVE ExpandLoop(_, _)
ExpandLoop(df, k) ==
    IF k > Len(df) THEN <<>> ELSE StayRows(df[k], k) \o ExpandLoop(df, k + 1)

\* daily[daily["room_type"].notna()]
RECURSIVE DropNoRoomType(_)
DropNoRoomType(rows) ==
    IF rows = <<>> THEN <<>>
    ELSE (IF Head(rows).room_type # None THEN <<Head(rows)>> ELSE <<>>)
            \o DropNoRoomType(Tail(rows))

\* expand_stays_to_daily_rows(df)
ExpandStaysToDailyRows(df) ==
    IF df = <<>> THEN <<>> ELSE DropNoRoomType(ExpandLoop(df, 1))

\* ---- build_feature_dataset ----------------------------------------------
\* An inventory map is a tuple of [room_type, rooms] entries and a maintenance
\* table a tuple of [Date, Quantity] rows; the empty tuple also stands for an
\* argument left at None, which takes the same branch as an empty one.
Digits == <<"0", "1", "2", "3", "4", "5", "6", "7", "8", "9">>
AsciiOrder == <<" ">> \o Digits \o UpperCase \o LowerCase
CharCode(c) == CHOOSE i \in 1..Len(AsciiOrder) : AsciiOrder[i] = c

\* a < b for two texts
RECURSIVE TextLess(_, _)
TextLess(a, b) ==
    IF b = <<>> THEN FALSE
    ELSE IF a = <<>> THEN TRUE
    ELSE IF Head(a) = Head(b) THEN TextLess(Tail(a), Tail(b))
    ELSE CharCode(Head(a)) < CharCode(Head(b))

\* .astype(str).str.upper()
AsStr(x) == IF x = None THEN <<"N", "o", "n", "e">> ELSE x
UpperText(x) == Arr([i \in 1..Len(x) |-> Upper(x[i])], Len(x))

\* set([s.upper() for s in (excluded_segments or ["COMP", "HU"])])
ExcludedSegments == {<<"C", "O", "M", "P">>, <<"H", "U">>}

\* paid_flag = ~segment_up.isin(excluded_segments)
PaidFlagRaw(r) == r.segment \notin ExcludedSegments
PaidFlag(r) == UpperText(AsStr(r.segment)) \notin ExcludedSegments

\* valid_rate_flag = nightly_rate.notna() & paid_flag
ValidRateFlag(r) == r.nightly_rate # NoRate /\ PaidFlag(r)

RECURSIVE SumOver(_, _)
SumOver(f, n) == IF n = 0 THEN 0 ELSE SumOver(f, n - 1) + f[n]

\* Group keys (date, room_type, arrangement) in groupby order; with
\* dropna=False a missing arrangement is a key of its own, sorted last.
KeyLess(a, b) ==
    IF a[1] # b[1] THEN a[1] < b[1]
    ELSE IF a[2] # b[2] THEN TextLess(a[2], b[2])
    ELSE IF a[3] = b[3] THEN FALSE
    ELSE IF a[3] = None THEN FALSE
    ELSE IF b[3] = None THEN TRUE
    ELSE TextLess(a[3], b[3])

RECURSIVE SortKeys(_)
SortKeys(K) ==
    IF K = {} THEN <<>>
    ELSE LET m == CHOOSE a \in K : \A b \in K \ {a} : KeyLess(a, b)
         IN  <<m>> \o SortKeys(K \ {m})

\* adr_agg: mean nightly_rate of the valid-rate rows of each group, kept as
\* the fraction sum / count
AdrAggAllRows(rows) ==
    LET idx(key) == {i \in 1..Len(rows) :
                        <<rows[i].date, rows[i].room_type, rows[i].arrangement>> = key}
        keys == SortKeys({<<rows[i].date, rows[i].room_type, rows[i].arrangement>> :
                            i \in 1..Len(rows)})
    IN  Arr([g \in 1..Len(keys) |->
                [date          |-> keys[g][1],
                 room_type     |-> keys[g][2],
                 arrangement   |-> keys[g][3],
                 avg_room_rate |->
                    [num |-> SumOver([i \in 1..Len(rows) |->
                                        IF i \in idx(keys[g]) /\ rows[i].nightly_rate # NoRate
                                        THEN rows[i].nightly_rate.v ELSE 0], Len(rows)),
                     den |-> Cardinality(idx(keys[g]))]]],
            Len(keys))
AdrAgg(rows) ==
    LET idx(key) == {i \in 1..Len(rows) :
                        /\ ValidRateFlag(rows[i])
                        /\ <<rows[i].date, rows[i].room_type, rows[i].arrangement>> = key}
        keys == SortKeys({<<rows[i].date, rows[i].room_type, rows[i].arrangement>> :
                            i \in {j \in 1..Len(rows) : ValidRateFlag(rows[j])}})
    IN  Arr([g \in 1..Len(keys) |->
                [date          |-> keys[g][1],
                 room_type     |-> keys[g][2],
                 arrangement   |-> keys[g][3],
                 avg_room_rate |->
                    [num |-> SumOver([i \in 1..Len(rows) |->
                                        IF i \in idx(keys[g])
                                        THEN rows[i].nightly_rate.v ELSE 0], Len(rows)),
                     den |-> Cardinality(idx(keys[g]))]]],
            Len(keys))

\* .dropna(subset=["room_number"])["room_number"].nunique()
NUniqueRooms(rows, I) == Cardinality({rows[i].room_number : i \in I} \ {None})

\* maintenance_for_date["Quantity"].sum()
TotalRoomsMaintenance(maintenance, date) ==
    IF maintenance = <<>> THEN 0
    ELSE SumOver([i \in 1..Len(maintenance) |->
                    IF maintenance[i].Date = date THEN maintenance[i].Quantity ELSE 0],
                 Len(maintenance))

\* sum(inventory_per_room_type.values()) or, without a map, the rooms seen
TotalInventory(inventory, rows, I) ==
    IF inventory # <<>>
    THEN SumOver([i \in 1..Len(inventory) |-> inventory[i].rooms], Len(inventory))
    ELSE NUniqueRooms(rows, I)

\* available_inventory = max(1, total_inventory - blocked - maintenance)
AvailableInventoryNoFloor(total_inventory, blocked, maintenance) ==
    total_inventory - blocked - maintenance
AvailableInventory(total_inventory, blocked, maintenance) ==
    Max(1, total_inventory - blocked - maintenance)

\* daily_occupancy_rate = min(1.0, total_rooms_sold / available_inventory),
\* kept as the fraction num / den
OccupancyRateNoCap(sold, available) == [num |-> sold, den |-> available]
OccupancyRate(sold, available) ==
    IF sold >= available THEN [num |-> 1, den |-> 1]
    ELSE [num |-> sold, den |-> available]

\* One pass of "for date in daily['date'].unique()"
DailyOcc(rows, date, inventory, maintenance) ==
    LET date_data == {i \in 1..Len(rows) : rows[i].date = date}
        sold      == NUniqueRooms(rows, {i \in date_data : PaidFlag(rows[i])})
        blocked   == NUniqueRooms(rows, {i \in date_data : ~PaidFlag(rows[i])})
        maint     == TotalRoomsMaintenance(maintenance, date)
        total     == TotalInventory(inventory, rows, date_data)
        available == AvailableInventory(total, blocked, maint)
    IN  [daily_occupancy_rate    |-> OccupancyRate(sold, available),
         total_rooms_sold        |-> sold,
         total_rooms_blocked     |-> blocked,
         total_rooms_maintenance |-> maint,
         total_inventory         |-> total,
         available_inventory     |-> available]

\* pd.to_datetime(agg["date"]).isin(list(flag_set)) if the set is non-empty
FlagOf(flag_set, date) == flag_set # {} /\ date \in flag_set

\* sort_values(["Date", "Room Type"]), stable: an insertion sort
RowBefore(a, b) ==
    IF a.Date # b.Date THEN a.Date < b.Date ELSE TextLess(a.Room_Type, b.Room_Type)

RECURSIVE InsertRowBeforeEqual(_, _)
InsertRowBeforeEqual(sorted, r) ==
    IF sorted = <<>> THEN <<r>>
    ELSE IF ~RowBefore(sorted[Len(sorted)], r)
         THEN Append(InsertRowBeforeEqual(SubSeq(sorted, 1, Len(sorted) - 1), r),
                     sorted[Len(sorted)])
         ELSE Append(sorted, r)
RECURSIVE InsertRow(_, _)
InsertRow(sorted, r) ==
    IF sorted = <<>> THEN <<r>>
    ELSE IF RowBefore(r, sorted[Len(sorted)])
         THEN Append(InsertRow(SubSeq(sorted, 1, Len(sorted) - 1), r), sorted[Len(sorted)])
         ELSE Append(sorted, r)

RECURSIVE SortByDateRoomType(_)
SortByDateRoomType(rows) ==
    IF rows = <<>> THEN <<>>
    ELSE InsertRow(SortByDateRoomType(SubSeq(rows, 1, Len(rows) - 1)), rows[Len(rows)])

\* The rows, and the inventory entries, of one room type
RECURSIVE RowsOfRoomType(_, _)
RowsOfRoomType(rows, room_type) ==
    IF rows = <<>> THEN <<>>
    ELSE (IF Head(rows).room_type = room_type THEN <<Head(rows)>> ELSE <<>>)
            \o RowsOfRoomType(Tail(rows), room_type)
RECURSIVE InventoryOfRoomType(_, _)
InventoryOfRoomType(inventory, room_type) ==
    IF inventory = <<>> THEN <<>>
    ELSE (IF Head(inventory).room_type = room_type THEN <<Head(inventory)>> ELSE <<>>)
            \o InventoryOfRoomType(Tail(inventory), room_type)

\* agg = adr_agg.merge(daily_occ_df, on="date", how="left"), the flag
\* columns, the renamed final columns
FeatureRowPerRoomType(g, rows, inventory, maintenance, holidays, events, fasting) ==
    LET occ == DailyOcc(RowsOfRoomType(rows, g.room_type), g.date,
                        InventoryOfRoomType(inventory, g.room_type), maintenance)
    IN  [Date                |-> g.date,
         Room_Type           |-> g.room_type,
         Arrangement         |-> IF g.arrangement = None THEN <<>> ELSE g.arrangement,
         Average_Room_Rate   |-> g.avg_room_rate,
         Occupancy_Rate      |-> occ.daily_occupancy_rate,
         Rooms_Sold          |-> occ.total_rooms_sold,
         Rooms_Excluded      |-> occ.total_rooms_blocked,
         Rooms_Maintenance   |-> occ.total_rooms_maintenance,
         Room_Inventory      |-> occ.total_inventory,
         Available_Inventory |-> occ.available_inventory,
         Is_Holiday          |-> FlagOf(holidays, g.date),
         Is_Weekend          |-> Weekday(g.date) >= 5,
         Is_Event            |-> FlagOf(events, g.date),
         Is_Fasting          |-> FlagOf(fasting, g.date)]
FeatureRow(g, rows, inventory, maintenance, holidays, events, fasting) ==
    LET occ == DailyOcc(rows, g.date, inventory, maintenance)
    IN  [Date                |-> g.date,
         Room_Type           |-> g.room_type,
         Arrangement         |-> IF g.arrangement = None THEN <<>> ELSE g.arrangement,
         Average_Room_Rate   |-> g.avg_room_rate,
         Occupancy_Rate      |-> occ.daily_occupancy_rate,
         Rooms_Sold          |-> occ.total_rooms_sold,
         Rooms_Excluded      |-> occ.total_rooms_blocked,
         Rooms_Maintenance   |-> occ.total_rooms_maintenance,
         Room_Inventory      |-> occ.total_inventory,
         Available_Inventory |-> occ.available_inventory,
         Is_Holiday          |-> FlagOf(holidays, g.date),
         Is_Weekend          |-> Weekday(g.date) >= 5,
         Is_Event            |-> FlagOf(events, g.date),
         Is_Fasting          |-> FlagOf(fasting, g.date)]

\* build_feature_dataset(source_df, ...), given daily = the expanded stays
BuildFeatureDataset(rows, inventory, maintenance, holidays, events, fasting) ==
    IF rows = <<>> THEN <<>>
    ELSE LET adr_agg == AdrAgg(rows)
         IN  SortByDateRoomType(
                Arr([g \in 1..Len(adr_agg) |->
                        FeatureRow(adr_agg[g], rows, inventory, maintenance,
                                   holidays, events, fasting)],
                    Len(adr_agg)))

\* ------------------------------------------------------------------ inputs
Ts(day, half) == [t |-> "ts", v |-> 2 * day + half]
BadDate == [t |-> "bad", v |-> 0]
Rate(n) == [t |-> "num", v |-> n]
TextRate == [t |-> "str", v |-> 0]
NanRate == [t |-> "nan", v |-> 0]

Reservation(arrival, depart, room_type, arrangement, room_number, segment, rate) ==
    [arrival_date |-> arrival, depart_date |-> depart, room_type |-> room_type,
     arrangement |-> arrangement, room_number |-> room_number,
     segment |-> segment, room_rate |-> rate]

RB  == <<"R", "B">>
FIT == <<"F", "I", "T">>
Comp == <<"c", "o", "m", "p">>
Room101 == <<"1", "0", "1">>
Room102 == <<"1", "0", "2">>
RawDeluxe == <<"d", "l", "x">>
RawBusiness == <<" ", "B", "S">>
RawVilla == <<"V", "L", "A">>
RawBlank == <<" ">>

\* Reservations for the stay expansion: any pair of date cells (midnight,
\* noon or unparseable), with a few room types and rates
DateCells == {Ts(d, h) : d \in 1..MaxDay, h \in {0, 1}} \cup {BadDate}
RoomAndRate ==
    {<<RawDeluxe, Rate(100)>>, <<RawDeluxe, TextRate>>, <<RawDeluxe, NanRate>>,
     <<None, Rate(100)>>, <<RawVilla, Rate(100)>>, <<RawBlank, Rate(100)>>}
StayReservations ==
    {Reservation(a, d, rr[1], RB, Room101, FIT, rr[2]) :
        a \in DateCells, d \in DateCells, rr \in RoomAndRate}
StayTables == UNION {[1..n -> StayReservations] : n \in 0..MaxStays}

\* Reservations for the aggregation: one-night stays of two rooms
AggDates == {1, 2}
RoomsOfHotel == {<<Room101, RawDeluxe>>, <<Room102, RawBusiness>>}
NightReservations ==
    {Reservation(Ts(d, 0), Ts(d + 1, 0), room[2], arr, room[1], seg, Rate(r)) :
        d \in AggDates, room \in RoomsOfHotel, arr \in {RB, None},
        seg \in {FIT, Comp}, r \in {100, 200}}
NightTables == UNION {[1..n -> NightReservations] : n \in 0..MaxRes}

InventoryMaps ==
    {<<>>, <<[room_type |-> Deluxe, rooms |-> 2],
             [room_type |-> ExecutiveSuite, rooms |-> 1]>>}
MaintenanceTables ==
    {<<>>, <<[Date |-> 1, Quantity |-> 1], [Date |-> 1, Quantity |-> 2]>>}

\* The occupancy scenario: ten rooms, eight sold, one complimentary, one
\* under maintenance, all on day 1
ScenarioRooms == <<"1", "2", "3", "4", "5", "6", "7", "8", "9">>
ScenarioReservations ==
    [k \in 1..9 |->
        Reservation(Ts(1, 0), Ts(2, 0), RawDeluxe, RB, <<ScenarioRooms[k]>>,
                    IF k = 9 THEN Comp ELSE FIT, Rate(100))]
ScenarioInventory == <<[room_type |-> Deluxe, rooms |-> 10]>>
ScenarioMaintenance == <<[Date |-> 1, Quantity |-> 1]>>

\* ----------------------------------------------------------------- actions
CalIdle ==
    /\ hist_df = <<>>
    /\ enrich = <<>>
    /\ holidays_df = <<>>
    /\ start_date = DefaultStartDate
    /\ future = <<>>

InitAgg ==
    /\ RunIdle
    /\ MlIdle
    /\ OptIdle
    /\ ServeIdle
    /\ CalIdle
    /\ CombIdle
    /\ holidays_set = {}
    /\ events_set = {}
    /\ fasting_set = {}
    /\ daily = <<>>
    /\ features_df = <<>>
    /\ \/ /\ pc = "expand_call"
          /\ source_df \in StayTables
          /\ inventory_per_room_type = <<>>
          /\ maintenance_df = <<>>
       \/ /\ pc = "build_call"
          /\ source_df \in NightTables
          /\ inventory_per_room_type \in InventoryMaps
          /\ maintenance_df \in MaintenanceTables
       \/ /\ pc = "build_call"
          /\ source_df = ScenarioReservations
          /\ inventory_per_room_type = ScenarioInventory
          /\ maintenance_df = ScenarioMaintenance

ExpandStays ==
    /\ pc = "expand_call"
    /\ daily' = ExpandStaysToDailyRows(source_df)
    /\ pc' = "expand_done"
    /\ UNCHANGED <<mlVars, optVars, serveVars, runVars, calVars, combVars, source_df, inventory_per_room_type,
                   maintenance_df, holidays_set, events_set, fasting_set, features_df>>

\* build_feature_dataset expands the stays itself (daily) and aggregates them
BuildFeatures ==
    /\ pc = "build_call"
    /\ daily' = ExpandStaysToDailyRows(source_df)
    /\ features_df' = BuildFeatureDataset(daily', inventory_per_room_type,
                                          maintenance_df, holidays_set,
                                          events_set, fasting_set)
    /\ pc' = "build_done"
    /\ UNCHANGED <<mlVars, optVars, serveVars, runVars, calVars, combVars, source_df, inventory_per_room_type,
                   maintenance_df, holidays_set, events_set, fasting_set>>

NextAgg == ExpandStays \/ BuildFeatures

SpecAgg == InitAgg /\ [][NextAgg]_vars

\* ----------------------------------------------------- aggregation claims
ValidDates(res) ==
    /\ res.arrival_date.t = "ts"
    /\ res.depart_date.t = "ts"
    /\ res.depart_date.v > res.arrival_date.v

\* The calendar day of a parseable date cell
DayOfCell(cell) == cell.v \div 2

\* The reservation's room type is text with a character other than a blank
HasRoomType(res) ==
    /\ res.room_type # None
    /\ \E i \in 1..Len(res.room_type) : res.room_type[i] # " "

\* The daily rows that reservation k of source_df contributed on day d
RowsOfStay(k, d) == {i \in 1..Len(daily) : daily[i].stay = k /\ daily[i].date = d}

DaysOfModel == 0..(MaxDay + 1)

Expanded == pc \in {"expand_done", "build_done"}

\* The statement of C5 as written: every reservation with valid dates gives
\* exactly one row per day of [arrival day, departure day), each carrying the
\* reservation's rate, and no other row.
C5_AsStated ==
    Expanded =>
        \A k \in 1..Len(source_df) :
            LET res == source_df[k]
            IN  IF ValidDates(res)
                THEN \A d \in DaysOfModel :
                        /\ Cardinality(RowsOfStay(k, d)) =
                              (IF DayOfCell(res.arrival_date) <= d
                                    /\ d < DayOfCell(res.depart_date)
                               THEN 1 ELSE 0)
                        /\ \A i \in RowsOfStay(k, d) :
                              daily[i].nightly_rate = res.room_rate
                ELSE \A d \in DaysOfModel : RowsOfStay(k, d) = {}

\* C5 (amended): every reservation with valid dates and a room type that is
\* not missing or blank gives exactly one row per day of
\* [arrival day, departure day), each carrying the reservation's rate when it
\* is a number and a null rate otherwise; every other reservation gives no
\* row.
C5_ExpandHalfOpenInterval ==
    Expanded =>
        \A k \in 1..Len(source_df) :
            LET res == source_df[k]
            IN  IF ValidDates(res) /\ HasRoomType(res)
                THEN \A d \in DaysOfModel :
                        /\ Cardinality(RowsOfStay(k, d)) =
                              (IF DayOfCell(res.arrival_date) <= d
                                    /\ d < DayOfCell(res.depart_date)
                               THEN 1 ELSE 0)
                        /\ \A i \in RowsOfStay(k, d) :
                              daily[i].nightly_rate =
                                 (IF res.room_rate.t = "num" THEN res.room_rate
                                  ELSE NoRate)
                ELSE \A d \in DaysOfModel : RowsOfStay(k, d) = {}

\* The scenario of the claim: arrival on day 1, departure on day 3, rate 100
\* gives exactly the rows of day 1 and day 2 with nightly_rate 100
C5_Witness ==
    /\ pc = "expand_done"
    /\ Len(source_df) = 1
    /\ source_df[1].arrival_date = Ts(1, 0)
    /\ source_df[1].depart_date = Ts(3, 0)
    /\ source_df[1].room_rate = Rate(100)
    /\ Len(daily) = 2
    /\ daily[1].date = 1 /\ daily[1].nightly_rate = Rate(100)
    /\ daily[2].date = 2 /\ daily[2].nightly_rate = Rate(100)
    /\ daily[1].room_type = Deluxe

\* C6: every row of the daily aggregate table has
\* 0 <= Occupancy Rate <= 1.
C6_OccupancyBounded ==
    \A i \in 1..Len(features_df) :
        LET occ == features_df[i].Occupancy_Rate
        IN  /\ occ.den > 0
            /\ 0 <= occ.num
            /\ occ.num <= occ.den

\* A date on which more rooms are sold than are available and the rooms under
\* maintenance exceed the inventory
C6_Witness ==
    /\ pc = "build_done"
    /\ \E i \in 1..Len(features_df) :
        /\ features_df[i].Rooms_Sold > features_df[i].Available_Inventory
        /\ features_df[i].Rooms_Excluded + features_df[i].Rooms_Maintenance
              > features_df[i].Room_Inventory

\* C7: rows of the daily aggregate table that share a date carry the same
\* Occupancy Rate.
C7_SameDateSameOccupancy ==
    \A i, j \in 1..Len(features_df) :
        features_df[i].Date = features_df[j].Date =>
            features_df[i].Occupancy_Rate = features_df[j].Occupancy_Rate

\* Two rows of one date with different room types and arrangements, on a date
\* that is not sold out
C7_Witness ==
    /\ pc = "build_done"
    /\ \E i, j \in 1..Len(features_df) :
        /\ features_df[i].Date = features_df[j].Date
        /\ features_df[i].Room_Type # features_df[j].Room_Type
        /\ features_df[i].Arrangement # features_df[j].Arrangement
        /\ features_df[i].Occupancy_Rate.num < features_df[i].Occupancy_Rate.den

\* The quantities of a date, counted on the expanded stay rows and the inputs
ExcludedSegmentRow(i) == UpperText(AsStr(daily[i].segment)) \in ExcludedSegments
RoomsOn(d, I) ==
    {daily[i].room_number : i \in {j \in I : daily[j].date = d}} \ {None}
PaidRoomsOn(d) == RoomsOn(d, {i \in 1..Len(daily) : ~ExcludedSegmentRow(i)})
BlockedRoomsOn(d) == RoomsOn(d, {i \in 1..Len(daily) : ExcludedSegmentRow(i)})
MaintenanceOn(d) ==
    SumOver([i \in 1..Len(maintenance_df) |->
                IF maintenance_df[i].Date = d THEN maintenance_df[i].Quantity ELSE 0],
            Len(maintenance_df))
InventoryOn(d) ==
    IF inventory_per_room_type = <<>>
    THEN Cardinality(RoomsOn(d, 1..Len(daily)))
    ELSE SumOver([i \in 1..Len(inventory_per_room_type) |->
                    inventory_per_room_type[i].rooms],
                 Len(inventory_per_room_type))

\* C8: on every row, available inventory = max(1, total inventory - distinct
\* blocked rooms - summed maintenance quantity of the date) and occupancy =
\* min(1, distinct paid rooms / available inventory).
C8_AvailableAndOccupancy ==
    \A i \in 1..Len(features_df) :
        LET r         == features_df[i]
            sold      == Cardinality(PaidRoomsOn(r.Date))
            available == Max(1, InventoryOn(r.Date)
                                  - Cardinality(BlockedRoomsOn(r.Date))
                                  - MaintenanceOn(r.Date))
        IN  /\ r.Available_Inventory = available
            /\ IF sold >= available
               THEN r.Occupancy_Rate.num = r.Occupancy_Rate.den
               ELSE r.Occupancy_Rate.num * available = sold * r.Occupancy_Rate.den

\* The scenario of the claim: inventory 10, sold 8, blocked 1, maintenance 1
\* gives available 8 and occupancy 1.0
C8_Witness ==
    /\ pc = "build_done"
    /\ \E i \in 1..Len(features_df) :
        /\ features_df[i].Room_Inventory = 10
        /\ features_df[i].Rooms_Sold = 8
        /\ features_df[i].Rooms_Excluded = 1
        /\ features_df[i].Rooms_Maintenance = 1
        /\ features_df[i].Available_Inventory = 8
        /\ features_df[i].Occupancy_Rate = [num |-> 1, den |-> 1]

\* =========================================================================
\* forecast.py: combine_forecasts
\* =========================================================================
\* A frame row is a record keyed by column name (blanks written as
\* underscores).  A cell of a column that may be empty is <<value>>, or Null
\* for None / NaN.
Null == <<>>
Cell(x) == <<x>>

\* r.get(column, default)
Get(r, column, default) == IF column \in DOMAIN r THEN r[column] ELSE default

\* One pass of "for _, r in hist_df.iterrows()".  origin tells the rows of the
\* two loops apart; it is bookkeeping of the model and no column of the frame.
HistoricalRowWithBlock(r) ==
    [Date                 |-> r.Date,
     Room_Type            |-> Get(r, "Room_Type", None),
     Average_Room_Rate    |-> Get(r, "Average_Room_Rate", Null),
     Occ                  |-> Get(r, "Occupancy_Rate", Null),
     Forecasted_ARR       |-> Get(r, "Average_Room_Rate", Null),
     Forecasted_Occ       |-> Get(r, "Occupancy_Rate", Null),
     Error_ARR            |-> Cell(0),
     Error_Occ            |-> Cell(0),
     Is_Holiday           |-> Get(r, "Is_Holiday", FALSE),
     Is_Weekend           |-> Get(r, "Is_Weekend", FALSE),
     Is_SchoolHoliday     |-> Get(r, "Is_SchoolHoliday", FALSE),
     Is_Event             |-> Get(r, "Is_Event", FALSE),
     holiday_block_length |-> B2N(Get(r, "Is_Holiday", FALSE)),
     Is_Bridge            |-> FALSE,
     origin               |-> "historical"]
HistoricalRow(r) ==
    [Date                 |-> r.Date,
     Room_Type            |-> Get(r, "Room_Type", None),
     Average_Room_Rate    |-> Get(r, "Average_Room_Rate", Null),
     Occ                  |-> Get(r, "Occupancy_Rate", Null),
     Forecasted_ARR       |-> Get(r, "Average_Room_Rate", Null),
     Forecasted_Occ       |-> Get(r, "Occupancy_Rate", Null),
     Error_ARR            |-> Cell(0),
     Error_Occ            |-> Cell(0),
     Is_Holiday           |-> Get(r, "Is_Holiday", FALSE),
     Is_Weekend           |-> Get(r, "Is_Weekend", FALSE),
     Is_SchoolHoliday     |-> Get(r, "Is_SchoolHoliday", FALSE),
     Is_Event             |-> Get(r, "Is_Event", FALSE),
     holiday_block_length |-> 0,
     Is_Bridge            |-> FALSE,
     origin               |-> "historical"]

\* merged = arr.merge(occ, on='Date', how='left', suffixes=('', '_occ')):
\* every arr row once per occ row of its date (once, with empty occ columns,
\* when there is none).  Columns of both frames keep arr's value under their
\* name; only Forecasted_Occ comes from occ under its own name.
RECURSIVE OccMatches(_, _)
OccMatches(occ, date) ==
    IF occ = <<>> THEN <<>>
    ELSE (IF Head(occ).Date = date THEN <<Head(occ)>> ELSE <<>>)
            \o OccMatches(Tail(occ), date)

MergedRow(a, o) ==
    [Date                |-> a.Date,
     Room_Type           |-> a.Room_Type,
     Forecasted_ARR      |-> a.Forecasted_ARR,
     Predicted_Occupancy |-> a.Predicted_Occupancy,
     Is_Holiday          |-> a.Is_Holiday,
     Is_Weekend          |-> a.Is_Weekend,
     Is_SchoolHoliday    |-> a.Is_SchoolHoliday,
     Is_Event            |-> a.Is_Event,
     Is_Bridge           |-> a.Is_Bridge,
     Forecasted_Occ      |-> o.Forecasted_Occ]

NoOccRow == [Forecasted_Occ |-> Null]

RECURSIVE MergeLeft(_, _)
MergeLeft(arr, occ) ==
    IF arr = <<>> THEN <<>>
    ELSE LET a       == Head(arr)
             matches == OccMatches(occ, a.Date)
         IN  (IF matches = <<>> THEN <<MergedRow(a, NoOccRow)>>
              ELSE Arr([i \in 1..Len(matches) |-> MergedRow(a, matches[i])],
                       Len(matches)))
                \o MergeLeft(Tail(arr), occ)

\* One pass of "for _, r in merged.iterrows()"
ForecastRowZeroError(r) ==
    [Date                 |-> r.Date,
     Room_Type            |-> Get(r, "Room_Type", None),
     Average_Room_Rate    |-> Null,
     Occ                  |-> Null,
     Forecasted_ARR       |-> Get(r, "Forecasted_ARR", Null),
     Forecasted_Occ       |-> Get(r, "Forecasted_Occ", Null),
     Error_ARR            |-> Cell(0),
     Error_Occ            |-> Cell(0),
     Is_Holiday           |-> Get(r, "Is_Holiday", Null),
     Is_Weekend           |-> Get(r, "Is_Weekend", Null),
     Is_SchoolHoliday     |-> Get(r, "Is_SchoolHoliday", Null),
     Is_Event             |-> Get(r, "Is_Event", Null),
     holiday_block_length |-> Get(r, "holiday_block_length", 0),
     Is_Bridge            |-> Get(r, "Is_Bridge", FALSE),
     origin               |-> "forecast"]
ForecastRow(r) ==
    [Date                 |-> r.Date,
     Room_Type            |-> Get(r, "Room_Type", None),
     Average_Room_Rate    |-> Null,
     Occ                  |-> Null,
     Forecasted_ARR       |-> Get(r, "Forecasted_ARR", Null),
     Forecasted_Occ       |-> Get(r, "Forecasted_Occ", Null),
     Error_ARR            |-> Null,
     Error_Occ            |-> Null,
     Is_Holiday           |-> Get(r, "Is_Holiday", Null),
     Is_Weekend           |-> Get(r, "Is_Weekend", Null),
     Is_SchoolHoliday     |-> Get(r, "Is_SchoolHoliday", Null),
     Is_Event             |-> Get(r, "Is_Event", Null),
     holiday_block_length |-> Get(r, "holiday_block_length", 0),
     Is_Bridge            |-> Get(r, "Is_Bridge", FALSE),
     origin               |-> "forecast"]

\* final_df.sort_values(['Date', 'Room Type']) keeps rows of equal keys in
\* their order: the insertion sort of the aggregate table
CombineForecasts(occ, arr, historical) ==
    LET merged == MergeLeft(arr, occ)
        final_rows ==
            Arr([i \in 1..Len(historical) |-> HistoricalRow(historical[i])],
                Len(historical))
            \o Arr([i \in 1..Len(merged) |-> ForecastRow(merged[i])], Len(merged))
    IN  SortByDateRoomType(final_rows)

\* With no row at all, pd.DataFrame(final_rows) has no column and
\* sort_values(['Date', 'Room Type']) raises KeyError
CombineRaises(occ, arr, historical) ==
    Len(historical) = 0 /\ Len(MergeLeft(arr, occ)) = 0

\* The historical rows of a combined table, in table order
RECURSIVE HistoricalRowsOf(_)
HistoricalRowsOf(rows) ==
    IF rows = <<>> THEN <<>>
    ELSE (IF Head(rows).origin = "historical" THEN <<Head(rows)>> ELSE <<>>)
            \o HistoricalRowsOf(Tail(rows))

\* ------------------------------------------------------------------ inputs
\* Rows of the processed dataset, as build_feature_dataset writes them: the
\* rate and the occupancy (written in hundredths) are never empty
ProcessedRows ==
    {[Date |-> d, Room_Type |-> rt, Arrangement |-> RB,
      Average_Room_Rate |-> Cell(rate), Occupancy_Rate |-> Cell(occ),
      Is_Holiday |-> FALSE, Is_Weekend |-> Weekday(d) >= 5,
      Is_Event |-> FALSE, Is_SchoolHoliday |-> FALSE] :
        d \in AggDates, rt \in {Deluxe, Suite}, rate \in {100, 200}, occ \in {50, 100}}
HistoricalTables == UNION {[1..n -> ProcessedRows] : n \in 0..MaxHistRows}

\* The forecasts as ml_predict_occupancy_and_arr returns them: one occupancy
\* row per future date, one rate row per future date and (room type,
\* arrangement) pair seen in history
FirstForecastDay == Cardinality(AggDates) + 1
PairRoomTypes == {<<Deluxe>>, <<Suite, Deluxe>>, <<Deluxe, Deluxe>>}

OccForecast(n, occ) ==
    [i \in 1..n |->
        [Date |-> FirstForecastDay + i - 1, Forecasted_Occ |-> Cell(occ),
         Is_Holiday |-> FALSE, Is_Weekend |-> FALSE,
         Is_SchoolHoliday |-> FALSE, Is_Event |-> FALSE]]

ArrForecast(n, pairs, occ, bridge) ==
    [i \in 1..(n * Len(pairs)) |->
        [Date |-> FirstForecastDay + ((i - 1) \div Len(pairs)),
         Room_Type |-> pairs[((i - 1) % Len(pairs)) + 1],
         Forecasted_ARR |-> Cell(150), Predicted_Occupancy |-> Cell(occ),
         Is_Holiday |-> bridge, Is_Weekend |-> FALSE,
         Is_SchoolHoliday |-> FALSE, Is_Event |-> FALSE, Is_Bridge |-> bridge]]

ForecastInputs ==
    {<<OccForecast(n, occ), ArrForecast(n, pairs, occ, bridge)>> :
        n \in 0..MaxFcDays, pairs \in PairRoomTypes, occ \in {40, 80},
        bridge \in BOOLEAN}

\* combine_forecasts called with forecasts that begin on the last historical
\* date (the overlap of history and forecast that __main__ allows for)
LastHistoricalDay == Cardinality(AggDates)
OverlapForecast(fc) ==
    [i \in 1..Len(fc) |-> [fc[i] EXCEPT !.Date = @ - 1]]
OverlapInputs ==
    {<<OverlapForecast(OccForecast(1, 40)),
       OverlapForecast(ArrForecast(1, pairs, 40, FALSE))>> : pairs \in PairRoomTypes}

\* ----------------------------------------------------------------- actions
InitComb ==
    /\ RunIdle
    /\ MlIdle
    /\ OptIdle
    /\ ServeIdle
    /\ CalIdle
    /\ AggIdle
    /\ pc = "combine_call"
    /\ historical_df \in HistoricalTables
    /\ \E fc \in ForecastInputs \cup OverlapInputs :
        /\ occupancy_forecast = fc[1]
        /\ arr_forecast = fc[2]
    /\ final_df = <<>>
    /\ roundtrip_df = <<>>

Combine ==
    /\ pc = "combine_call"
    /\ IF CombineRaises(occupancy_forecast, arr_forecast, historical_df)
       THEN /\ pc' = "combine_error"
            /\ UNCHANGED final_df
       ELSE /\ final_df' = CombineForecasts(occupancy_forecast, arr_forecast,
                                            historical_df)
            /\ pc' = "combine_done"
    /\ UNCHANGED <<mlVars, optVars, serveVars, runVars, calVars, aggVars, historical_df, occupancy_forecast,
                   arr_forecast, roundtrip_df>>

\* The round trip: the historical rows of the combined table go through
\* combine_forecasts again, with empty forecasts
RoundTrip ==
    /\ pc = "combine_done"
    /\ IF CombineRaises(<<>>, <<>>, HistoricalRowsOf(final_df))
       THEN /\ pc' = "roundtrip_error"
            /\ UNCHANGED roundtrip_df
       ELSE /\ roundtrip_df' = CombineForecasts(<<>>, <<>>, HistoricalRowsOf(final_df))
            /\ pc' = "roundtrip_done"
    /\ UNCHANGED <<mlVars, optVars, serveVars, runVars, calVars, aggVars, historical_df, occupancy_forecast,
                   arr_forecast, final_df>>

NextComb == Combine \/ RoundTrip

SpecComb == InitComb /\ [][NextComb]_vars

\* --------------------------------------------------------- combiner claims
\* C9: every historical row of the combined table has Error ARR = 0 and
\* Error Occ = 0; every forecast row has both error fields and both actual
\* fields empty.
C9_ErrorFields ==
    \A i \in 1..Len(final_df) :
        IF final_df[i].origin = "historical"
        THEN /\ final_df[i].Error_ARR = Cell(0)
             /\ final_df[i].Error_Occ = Cell(0)
        ELSE /\ final_df[i].Error_ARR = Null
             /\ final_df[i].Error_Occ = Null
             /\ final_df[i].Average_Room_Rate = Null
             /\ final_df[i].Occ = Null

\* A combined table holding historical rows and forecast rows
C9_Witness ==
    /\ pc = "combine_done"
    /\ \E i, j \in 1..Len(final_df) :
        /\ final_df[i].origin = "historical"
        /\ final_df[i].Average_Room_Rate # Null
        /\ final_df[j].origin = "forecast"
        /\ final_df[j].Forecasted_ARR # Null
        /\ final_df[j].Forecasted_Occ # Null

\* C10: the historical rows of a combined table, fed back through
\* combine_forecasts with no forecast input, come out unchanged.
C10_RoundTripUnchanged ==
    pc = "roundtrip_done" => roundtrip_df = HistoricalRowsOf(final_df)

\* The rows combine_forecasts appends, in the order it appends them: the
\* historical loop, then the forecast loop
AppendedRows ==
    LET merged == MergeLeft(arr_forecast, occupancy_forecast)
    IN  Arr([i \in 1..Len(historical_df) |-> HistoricalRow(historical_df[i])],
            Len(historical_df))
        \o Arr([i \in 1..Len(merged) |-> ForecastRow(merged[i])], Len(merged))

SameKeys(a, b) == a.Date = b.Date /\ a.Room_Type = b.Room_Type

RowsWithKeysOf(rows, k) ==
    LET Test(r) == SameKeys(r, k) IN SelectSeq(rows, Test)

\* C11: the combined table is ascending by date and, within a date, ascending
\* by room type; rows equal on both keys stand in the order in which they
\* were appended, historical rows before forecast rows.
C11_SortedAndStable ==
    pc \in {"combine_done", "roundtrip_done", "roundtrip_error"} =>
        /\ Len(final_df) = Len(AppendedRows)
        /\ \A i \in 1..(Len(final_df) - 1) :
            \/ final_df[i].Date < final_df[i + 1].Date
            \/ /\ final_df[i].Date = final_df[i + 1].Date
               /\ ~TextLess(final_df[i + 1].Room_Type, final_df[i].Room_Type)
        /\ \A i \in 1..Len(final_df) :
            RowsWithKeysOf(final_df, final_df[i])
                = RowsWithKeysOf(AppendedRows, final_df[i])
        /\ \A i, j \in 1..Len(final_df) :
            (i < j /\ SameKeys(final_df[i], final_df[j])
                   /\ final_df[i].origin = "forecast")
                => final_df[j].origin = "forecast"

\* A table that the sort had to reorder, with two different historical rows
\* and a forecast row on the same date and room type
C11_Witness ==
    /\ pc = "combine_done"
    /\ final_df # AppendedRows
    /\ \E i, j, k \in 1..Len(final_df) :
        /\ i < j /\ j < k
        /\ SameKeys(final_df[i], final_df[j])
        /\ SameKeys(final_df[j], final_df[k])
        /\ final_df[i].origin = "historical"
        /\ final_df[j].origin = "historical"
        /\ final_df[i] # final_df[j]
        /\ final_df[k].origin = "forecast"

\* ------------------------------------------------------ room type category
RoomTypeCategories == {Deluxe, ExecutiveSuite, Suite, FamilySuite}

\* C12: every row of the daily stay rows, of the daily aggregate table and of
\* the combined table has a room type of the fixed category set; a
\* reservation whose raw room type resolves to none of them gives no row.
C12_RoomTypeInCategorySet ==
    /\ \A i \in 1..Len(daily) : daily[i].room_type \in RoomTypeCategories
    /\ \A i \in 1..Len(features_df) : features_df[i].Room_Type \in RoomTypeCategories
    /\ \A i \in 1..Len(final_df) : final_df[i].Room_Type \in RoomTypeCategories
    /\ pc \in {"expand_done", "build_done"} =>
            \A k \in 1..Len(source_df) :
                MapRoomType(source_df[k].room_type) = None
                    => \A i \in 1..Len(daily) : daily[i].stay # k

\* =========================================================================
\* forecast.py: ml_predict_occupancy_and_arr and __main__
\* =========================================================================
\* daily_df = hist_df[['Date', 'Occupancy Rate', 'Is_Holiday', 'Is_Weekend',
\*                     'Is_Event', 'Is_SchoolHoliday']]
DailyColumns(r) ==
    [Date |-> r.Date, Is_Holiday |-> r.Is_Holiday, Is_Weekend |-> r.Is_Weekend,
     Is_Event |-> r.Is_Event, Is_SchoolHoliday |-> r.Is_SchoolHoliday]

\* latest_hist_date = pd.to_datetime(enrich['Date'].max()) + pd.Timedelta(days=1)
LatestHistDate(frame) ==
    (CHOOSE d \in {frame[i].Date : i \in 1..Len(frame)} :
        \A i \in 1..Len(frame) : frame[i].Date <= d) + 1

\* pairs = hist_df[['Room Type', 'Arrangement']].dropna().drop_duplicates():
\* the distinct pairs in order of first appearance, without the rows that lack
\* a room type or an arrangement
RECURSIVE PairsLoop(_, _)
PairsLoop(hist, seen) ==
    IF hist = <<>> THEN seen
    ELSE LET pair == <<Head(hist).Room_Type, Head(hist).Arrangement>>
             keep == /\ pair[1] # None
                     /\ pair[2] # None
                     /\ \A i \in 1..Len(seen) : seen[i] # pair
         IN  PairsLoop(Tail(hist), IF keep THEN Append(seen, pair) ELSE seen)

Pairs(hist) == PairsLoop(hist, <<>>)

\* occ_out = future[['Date', 'Forecasted_Occ', 'Is_Holiday', 'Is_Weekend',
\*                   'Is_SchoolHoliday', 'Is_Event']]
OccOut(calendar, occ_pred) ==
    Arr([i \in 1..Len(calendar) |->
            [Date             |-> calendar[i].Date,
             Forecasted_Occ   |-> Cell(occ_pred),
             Is_Holiday       |-> calendar[i].Is_Holiday,
             Is_Weekend       |-> calendar[i].Is_Weekend,
             Is_SchoolHoliday |-> calendar[i].Is_SchoolHoliday,
             Is_Event         |-> calendar[i].Is_Event]],
        Len(calendar))

\* One row of arr_out: a future date with the room type of a pair (None when
\* the outer merge found no pair at all); the Arrangement column is not kept
ArrOutRow(c, room_type, occ_pred, arr_pred) ==
    [Date                |-> c.Date,
     Room_Type           |-> room_type,
     Forecasted_ARR      |-> Cell(arr_pred),
     Predicted_Occupancy |-> Cell(occ_pred),
     Is_Holiday          |-> c.Is_Holiday,
     Is_Weekend          |-> c.Is_Weekend,
     Is_SchoolHoliday    |-> c.Is_SchoolHoliday,
     Is_Event            |-> c.Is_Event,
     Is_Bridge           |-> c.Is_Bridge]

\* arrfuture = future_pairs.merge(pairs_, on='__k', how='outer'): every
\* future date with every pair, dates first
ArrOut(calendar, pairs, occ_pred, arr_pred) ==
    LET m == Len(pairs)
    IN  IF m = 0
        THEN Arr([i \in 1..Len(calendar) |->
                    ArrOutRow(calendar[i], None, occ_pred, arr_pred)],
                 Len(calendar))
        ELSE Arr([i \in 1..(Len(calendar) * m) |->
                    ArrOutRow(calendar[((i - 1) \div m) + 1],
                              pairs[((i - 1) % m) + 1][1], occ_pred, arr_pred)],
                 Len(calendar) * m)

\* ---- the design matrices of the rate model --------------------------------
\* A column of a design matrix: a plain column has no level, a column made by
\* get_dummies carries the category level it stands for
Column(name) == [name |-> name, level |-> <<>>]
Dummy(name, level) == [name |-> name, level |-> level]

\* The columns of data/dataset_processed.csv as data_extraction.py writes them
HistColumns ==
    <<"Date", "Room Type", "Arrangement", "Average Room Rate", "Occupancy Rate",
      "Rooms Sold", "Rooms Excluded", "Rooms Maintenance", "Room Inventory",
      "Available Inventory", "Is_Holiday", "Is_Weekend", "Is_Event", "Is_Fasting",
      "Is_SchoolHoliday">>

\* The columns of the frame _build_enrich_calendar_features returns
EnrichColumns ==
    <<"Date", "Occupancy Rate", "Is_NationalHoliday", "Is_Weekend", "Is_Event",
      "Is_SchoolHoliday", "Is_Bridge", "Is_Holiday", "Holiday_Duration",
      "Days_of_Holiday", "Distance_to_Holiday", "Day_of_Week", "Day_of_Month",
      "Month", "Year">>

\* df.drop(columns=names) / [c for c in cols if c not in names]
RECURSIVE DropColumns(_, _)
DropColumns(cols, names) ==
    IF cols = <<>> THEN <<>>
    ELSE (IF Head(cols) \in names THEN <<>> ELSE <<Head(cols)>>)
         \o DropColumns(Tail(cols), names)

\* [c for c in cols if c in names]
RECURSIVE KeepColumns(_, _)
KeepColumns(cols, names) ==
    IF cols = <<>> THEN <<>>
    ELSE (IF Head(cols) \in names THEN <<Head(cols)>> ELSE <<>>)
         \o KeepColumns(Tail(cols), names)

Range(seq) == {seq[i] : i \in 1..Len(seq)}

\* arrtrain = hist_df.drop(columns=[...]) merged with
\* enrich.drop(columns=['Occupancy Rate']) on Date
TrainsetColumns ==
    DropColumns(HistColumns, {"Occupancy Rate", "Is_Holiday", "Is_Weekend", "Is_Event",
                              "Is_SchoolHoliday"})
        \o DropColumns(EnrichColumns, {"Occupancy Rate", "Date"})

\* features_arr = [c for c in trainset.columns if c not in drop_arr]
FeaturesArr == DropColumns(TrainsetColumns, {"Date", "Year", "Average Room Rate"})

\* The cell of a row under a category column
CategoryCell(r, name) == IF name = "Room Type" THEN r.Room_Type ELSE r.Arrangement

\* trainset[c].dtype == object: the column read from the file holds text
IsObject(frame, name) == \E i \in 1..Len(frame) : CategoryCell(frame[i], name) # None

\* cat_cols
CatCols(hist) ==
    (IF IsObject(hist, "Room Type") THEN <<"Room Type">> ELSE <<>>)
        \o (IF IsObject(hist, "Arrangement") THEN <<"Arrangement">> ELSE <<>>)

\* The levels get_dummies finds in a category column, in sorted order; a
\* missing value is no level
RECURSIVE SortTexts(_)
SortTexts(S) ==
    IF S = {} THEN <<>>
    ELSE LET m == CHOOSE a \in S : \A b \in S \ {a} : TextLess(a, b)
         IN  <<m>> \o SortTexts(S \ {m})

Levels(frame, name) ==
    SortTexts({CategoryCell(frame[i], name) : i \in 1..Len(frame)} \ {None})

\* pd.get_dummies(raw, columns=cat_cols, drop_first=False): the other columns
\* in their order, then one column per level of each category column
RECURSIVE DummyColumns(_, _)
DummyColumns(frame, cat_cols) ==
    IF cat_cols = <<>> THEN <<>>
    ELSE LET lv == Levels(frame, Head(cat_cols))
         IN  [k \in 1..Len(lv) |-> Dummy(Head(cat_cols), lv[k])]
             \o DummyColumns(frame, Tail(cat_cols))

GetDummiesColumns(frame, cols, cat_cols) ==
    LET plain == DropColumns(cols, Range(cat_cols))
    IN  [k \in 1..Len(plain) |-> Column(plain[k])] \o DummyColumns(frame, cat_cols)

\* model_cols = X_train.columns.tolist()
ModelCols(hist) == GetDummiesColumns(hist, FeaturesArr, CatCols(hist))

\* base_feats = [c for c in base_feats if c in features_arr]
BaseFeats ==
    KeepColumns(<<"Predicted_Occupancy", "Is_NationalHoliday", "Is_Weekend", "Is_Event",
                  "Is_SchoolHoliday", "Is_Bridge", "Is_Holiday", "Holiday_Duration",
                  "Days_of_Holiday", "Distance_to_Holiday", "Day_of_Week",
                  "Day_of_Month", "Month">>,
                Range(FeaturesArr))

\* infer_cols = base_feats + cat_cols
InferCols(hist) == BaseFeats \o CatCols(hist)

\* .dt.day and .dt.month of a day of the model: day EndDay is 31 December
DayOfMonth(d) == 31 - (EndDay - d)
MonthOf(d) == 12

\* One row of arrfuture: a row of the future calendar with a pair and the
\* occupancy forecast of its date
ArrFutureRow(c, pair, occ_pred) ==
    [calendar |-> c, Room_Type |-> pair[1], Arrangement |-> pair[2],
     Predicted_Occupancy |-> occ_pred]

ArrFuture(calendar, pairs, occ_pred) ==
    LET m == Len(pairs)
    IN  IF m = 0
        THEN Arr([i \in 1..Len(calendar) |->
                    ArrFutureRow(calendar[i], <<None, None>>, occ_pred)],
                 Len(calendar))
        ELSE Arr([i \in 1..(Len(calendar) * m) |->
                    ArrFutureRow(calendar[((i - 1) \div m) + 1],
                                 pairs[((i - 1) % m) + 1], occ_pred)],
                 Len(calendar) * m)

\* The cell of a row of arrfuture under a column of the inference matrix,
\* booleans as _clean_boolean_columns leaves them (0 / 1)
FutureCell(r, col) ==
    IF col.level # <<>>
    THEN B2N(CategoryCell(r, col.name) = col.level)
    ELSE CASE col.name = "Predicted_Occupancy" -> r.Predicted_Occupancy
           [] col.name = "Is_NationalHoliday"  -> B2N(r.calendar.Is_NationalHoliday)
           [] col.name = "Is_Weekend"          -> B2N(r.calendar.Is_Weekend)
           [] col.name = "Is_Event"            -> B2N(r.calendar.Is_Event)
           [] col.name = "Is_SchoolHoliday"    -> B2N(r.calendar.Is_SchoolHoliday)
           [] col.name = "Is_Bridge"           -> B2N(r.calendar.Is_Bridge)
           [] col.name = "Is_Holiday"          -> B2N(r.calendar.Is_Holiday)
           [] col.name = "Holiday_Duration"    -> r.calendar.Holiday_Duration
           [] col.name = "Days_of_Holiday"     -> r.calendar.Days_of_Holiday
           [] col.name = "Distance_to_Holiday" -> r.calendar.Distance_to_Holiday
           [] col.name = "Day_of_Week"         -> r.calendar.Day_of_Week
           [] col.name = "Day_of_Month"        -> DayOfMonth(r.calendar.Date)
           [] col.name = "Month"               -> MonthOf(r.calendar.Date)

\* X_future_arr before it is aligned: get_dummies of arrfuture[infer_cols]
InferenceMatrix(arrfuture, hist) ==
    LET cols == GetDummiesColumns(arrfuture, InferCols(hist), CatCols(hist))
    IN  [columns |-> cols,
         rows    |-> Arr([i \in 1..Len(arrfuture) |->
                            [k \in 1..Len(cols) |-> FutureCell(arrfuture[i], cols[k])]],
                         Len(arrfuture))]

\* X.reindex(columns=model_cols, fill_value=0)
ReindexKeepingColumns(X, cols) == X
Reindex(X, cols) ==
    [columns |-> cols,
     rows    |-> Arr([i \in 1..Len(X.rows) |->
                        [k \in 1..Len(cols) |->
                            IF cols[k] \in Range(X.columns)
                            THEN X.rows[i][CHOOSE j \in 1..Len(X.columns) :
                                               X.columns[j] = cols[k]]
                            ELSE 0]],
                     Len(X.rows))]

\* X_future_arr as rf_arr.predict receives it
XFutureArr(calendar, hist, occ_pred) ==
    Reindex(InferenceMatrix(ArrFuture(calendar, Pairs(hist), occ_pred), hist),
            ModelCols(hist))

\* ------------------------------------------------------------------ inputs
\* The processed dataset as forecast.py reads it from its CSV file: rows
\* sorted by date and room type, the same pairs on each of its dates, the
\* same occupancy and flags on all rows of a date; a blank arrangement comes
\* back from the file as a missing value.  The latest date lies anywhere up
\* to the end of the calendar.
RO == <<"R", "O">>
PipelinePairs ==
    {<<<<Deluxe, RB>>>>,
     <<<<Deluxe, RB>>, <<Deluxe, RO>>>>,
     <<<<Deluxe, RB>>, <<Suite, RB>>>>,
     <<<<Deluxe, RB>>, <<Suite, None>>>>}

PipelineRow(d, pair, hol) ==
    [Date |-> d, Room_Type |-> pair[1], Arrangement |-> pair[2],
     Average_Room_Rate |-> Cell(100), Occupancy_Rate |-> Cell(50),
     Is_Holiday |-> hol, Is_Weekend |-> Weekday(d) >= 5,
     Is_Event |-> FALSE, Is_SchoolHoliday |-> FALSE]

PipelineDates == {<<last>> : last \in 1..EndDay}
                    \cup {<<last - gap, last>> : last \in 3..EndDay, gap \in {1, 2}}
                    \cup {<<last - 2, last - 1, last>> : last \in 3..HistDays}

PipelineTable(dates, pairs, hol) ==
    [i \in 1..(Len(dates) * Len(pairs)) |->
        PipelineRow(dates[((i - 1) \div Len(pairs)) + 1],
                    pairs[((i - 1) % Len(pairs)) + 1],
                    hol /\ i > (Len(dates) - 1) * Len(pairs))]

PipelineHistories ==
    {PipelineTable(dates, pairs, hol) :
        dates \in PipelineDates, pairs \in PipelinePairs, hol \in BOOLEAN}

PipelineHolidays ==
    {<<>>} \cup {<<[Date |-> EndDay - 1, Kind |-> k]>> : k \in {"national", "event"}}

\* The two regressors are left abstract: a run predicts one of these
\* (occupancy in hundredths, rate)
Predictions == {<<40, 150>>, <<80, 250>>}

\* ----------------------------------------------------------------- actions
InitPipeline ==
    /\ RunIdle
    /\ MlIdle
    /\ OptIdle
    /\ ServeIdle
    /\ AggIdle
    /\ pc = "predict_call"
    /\ historical_df \in PipelineHistories
    /\ holidays_df \in PipelineHolidays
    /\ hist_df = <<>>
    /\ enrich = <<>>
    /\ start_date = DefaultStartDate
    /\ future = <<>>
    /\ occupancy_forecast = <<>>
    /\ arr_forecast = <<>>
    /\ final_df = <<>>
    /\ roundtrip_df = <<>>

\* ml_predict_occupancy_and_arr(hist_df, holidays_df), followed by __main__
\* going on to combine_forecasts.  When no day is left after the latest
\* historical date, _future_calendar_2026 raises KeyError and the run ends.
MlPredictOccupancyAndArr ==
    /\ pc = "predict_call"
    /\ enrich' = BuildEnrichCalendarFeatures(
                    Arr([i \in 1..Len(historical_df) |-> DailyColumns(historical_df[i])],
                        Len(historical_df)))
    /\ start_date' = LatestHistDate(enrich')
    /\ IF start_date' > EndDay
       THEN /\ pc' = "predict_error"
            /\ UNCHANGED <<future, occupancy_forecast, arr_forecast, mlVars>>
       ELSE /\ future' = FutureCalendar2026(holidays_df, start_date')
            /\ model_cols' = ModelCols(historical_df)
            /\ \E pred \in Predictions :
                /\ occupancy_forecast' = OccOut(future', pred[1])
                /\ X_future_arr' = XFutureArr(future', historical_df, pred[1])
                /\ arr_forecast' = ArrOut(future', Pairs(historical_df),
                                          pred[1], pred[2])
            /\ pc' = "combine_call"
    /\ UNCHANGED <<optVars, serveVars, runVars, hist_df, holidays_df, aggVars, historical_df, final_df,
                   roundtrip_df>>

NextPipeline == MlPredictOccupancyAndArr \/ Combine

SpecPipeline == InitPipeline /\ [][NextPipeline]_vars

\* --------------------------------------------------------- pipeline claims
HistoricalRoomTypes == {historical_df[i].Room_Type : i \in 1..Len(historical_df)}
FutureDatesOf(calendar) == {calendar[i].Date : i \in 1..Len(calendar)}

\* The frame has exactly one row for each future date and historical room
\* type, and no other row among those selected by origin
OneRowPerDateAndRoomType(frame, rows) ==
    /\ \A d \in FutureDatesOf(future), rt \in HistoricalRoomTypes :
        Cardinality({i \in rows : frame[i].Date = d /\ frame[i].Room_Type = rt}) = 1
    /\ \A i \in rows :
        /\ frame[i].Date \in FutureDatesOf(future)
        /\ frame[i].Room_Type \in HistoricalRoomTypes

\* C13: the rate forecast returned by ml_predict_occupancy_and_arr, and the
\* forecast rows of the combined table, hold exactly one row per (future
\* date, room type), however many arrangements a room type has in history.
C13_OneForecastRowPerDateAndRoomType ==
    /\ pc \in {"combine_call", "combine_done"} =>
        OneRowPerDateAndRoomType(arr_forecast, 1..Len(arr_forecast))
    /\ pc = "combine_done" =>
        OneRowPerDateAndRoomType(final_df,
            {i \in 1..Len(final_df) : final_df[i].origin = "forecast"})

\* =========================================================================
\* auto_update_data.py: run_data_pipeline; the to_csv calls of the scripts;
\* revenue_management_app.py: RevenueManager.load_cached_data
\* =========================================================================
\* A run goes through data_extraction.py and forecast.py; each to_csv opens
\* its file for writing, which empties it, writes the lines and closes it.
\* The steps in which a script computes may raise; the run then ends
\* (subprocess.run(..., check=True)) and nothing is undone.
InitRun ==
    /\ CalIdle
    /\ AggIdle
    /\ CombIdle
    /\ RunIdle
    /\ MlIdle
    /\ OptIdle
    /\ ServeIdle
    /\ pc = "idle"

\* run_data_pipeline() is started
StartRun ==
    /\ pc \in {"idle", "done", "failed"}
    /\ run < MaxRuns
    /\ run' = run + 1
    /\ pc' = "extract"
    /\ UNCHANGED <<mlVars, optVars, serveVars, calVars, aggVars, combVars, files, handle, last_success, data_cache>>

\* data_extraction.py up to features_df: load_data or build_feature_dataset
\* raises, or the features are ready to be saved
Extraction ==
    /\ pc = "extract"
    /\ pc' \in {"failed", "save_dataset"}
    /\ UNCHANGED <<mlVars, optVars, serveVars, calVars, aggVars, combVars, runVars>>

\* forecast.py up to the transparent predictions: ml_predict_occupancy_and_arr
\* raises, or is about to save data/predictions.csv
Prediction ==
    /\ pc = "predict"
    /\ pc' \in {"failed", "save_predictions"}
    /\ UNCHANGED <<mlVars, optVars, serveVars, calVars, aggVars, combVars, runVars>>

\* combine_forecasts raises, or final_df is ready to be saved
Combination ==
    /\ pc = "combine"
    /\ pc' \in {"failed", "save_enhanced"}
    /\ UNCHANGED <<mlVars, optVars, serveVars, calVars, aggVars, combVars, runVars>>

\* The file each saving step writes, and the step that follows it
SavedFile ==
    [save_dataset     |-> "dataset_processed",
     save_predictions |-> "predictions",
     save_arr         |-> "arr_forecast_2026",
     save_enhanced    |-> "enhanced_forecasting_2026"]
StepAfter ==
    [save_dataset     |-> "predict",
     save_predictions |-> "save_arr",
     save_arr         |-> "combine",
     save_enhanced    |-> "done"]

\* df.to_csv(path): open(path, 'w') truncates the file
OpenFile ==
    /\ pc \in DOMAIN SavedFile
    /\ handle = "closed"
    /\ handle' = SavedFile[pc]
    /\ files' = [files EXCEPT ![SavedFile[pc]] = <<>>]
    /\ UNCHANGED <<pc, mlVars, optVars, serveVars, calVars, aggVars, combVars, run, last_success, data_cache>>

\* df.to_csv(path): the next lines reach the file
WriteLine ==
    /\ handle # "closed"
    /\ Len(files[handle]) < FileLines
    /\ files' = [files EXCEPT
                    ![handle] = Append(@, Content(run, handle)[Len(@) + 1])]
    /\ UNCHANGED <<pc, mlVars, optVars, serveVars, calVars, aggVars, combVars, run, handle, last_success, data_cache>>

\* df.to_csv(path) returns; after the last file the run has completed
CloseFile ==
    /\ handle # "closed"
    /\ Len(files[handle]) = FileLines
    /\ handle' = "closed"
    /\ pc' = StepAfter[pc]
    /\ last_success' = IF pc' = "done" THEN files ELSE last_success
    /\ UNCHANGED <<mlVars, optVars, serveVars, calVars, aggVars, combVars, run, files, data_cache>>

\* load_cached_data(), at any moment: pd.read_csv of the dataset file; an
\* empty file raises EmptyDataError, which is logged and leaves the cache
LoadCachedData ==
    /\ data_cache' = IF files["dataset_processed"] = <<>>
                     THEN data_cache
                     ELSE files["dataset_processed"]
    /\ UNCHANGED <<pc, mlVars, optVars, serveVars, calVars, aggVars, combVars, run, files, handle, last_success>>

NextRun ==
    \/ StartRun
    \/ Extraction
    \/ OpenFile
    \/ WriteLine
    \/ CloseFile
    \/ Prediction
    \/ Combination
    \/ LoadCachedData

SpecRun == InitRun /\ [][NextRun]_vars

\* -------------------------------------------------------------- run claims
\* C14: a reader that loads an output file while a run overwrites it finds
\* the complete earlier version or the complete new one, never a part.
C14_ReaderSeesCompleteFile ==
    \E r \in 0..MaxRuns : data_cache = Content(r, "dataset_processed")

\* C17: when a run has failed, every output file holds what the last
\* completed run wrote; no file of the failed run has been published.
C17_FailedRunPublishesNothing ==
    pc = "failed" => files = last_success

\* =========================================================================
\* expand_stays_to_daily_rows on two reservations
\* =========================================================================
\* Midnight of each day, one noon, and a text that is no date
PairDateCells == {Ts(d, 0) : d \in 1..MaxDay} \cup {Ts(1, 1), BadDate}
PairReservations ==
    {Reservation(a, d, RawDeluxe, RB, Room101, FIT, Rate(100)) :
        a \in PairDateCells, d \in PairDateCells}
PairTables == [1..(MaxStays + 1) -> PairReservations]

InitExpand ==
    /\ CalIdle
    /\ CombIdle
    /\ RunIdle
    /\ MlIdle
    /\ OptIdle
    /\ ServeIdle
    /\ pc = "expand_call"
    /\ source_df \in PairTables
    /\ inventory_per_room_type = <<>>
    /\ maintenance_df = <<>>
    /\ holidays_set = {}
    /\ events_set = {}
    /\ fasting_set = {}
    /\ daily = <<>>
    /\ features_df = <<>>

NextExpand == ExpandStays

SpecExpand == InitExpand /\ [][NextExpand]_vars

\* df without its k-th reservation
WithoutStay(df, k) == SubSeq(df, 1, k - 1) \o SubSeq(df, k + 1, Len(df))

\* The columns of the daily rows, without the reservation's position
DailyFrame(rows) ==
    Arr([i \in 1..Len(rows) |->
            [date         |-> rows[i].date,
             room_type    |-> rows[i].room_type,
             arrangement  |-> rows[i].arrangement,
             room_number  |-> rows[i].room_number,
             segment      |-> rows[i].segment,
             nightly_rate |-> rows[i].nightly_rate]],
        Len(rows))

PaidRowsOf(f) ==
    {i \in 1..Len(daily) :
        /\ daily[i].date = f.Date
        /\ daily[i].room_type = f.Room_Type
        /\ (IF daily[i].arrangement = None THEN <<>> ELSE daily[i].arrangement)
                = f.Arrangement
        /\ ~ExcludedSegmentRow(i)}

RateSum(I) ==
    SumOver([i \in 1..Len(daily) |->
                IF i \in I /\ daily[i].nightly_rate # NoRate
                THEN daily[i].nightly_rate.v ELSE 0],
            Len(daily))

RowsBack(fr, i) == {i - j : j \in {k \in 1..i : fr[k].Is_Holiday}}
RowsForward(fr, i) == {j - i : j \in {k \in i..Len(fr) : fr[k].Is_Holiday}}
SetMin(S) == CHOOSE x \in S : \A y \in S : x <= y

C18_NoHolidayFrame ==
    /\ pc = "enrich_done"
    /\ Len(enrich) > 1
    /\ \A i \in 1..Len(enrich) : ~enrich[i].Is_Holiday

\* C19: the rows the calendar features are computed over hold every calendar
\* day between the first and the last date exactly once: each row is the day
\* after the row before it, in the historical frame and in the future
\* calendar.
C19_RowsAreConsecutiveDays ==
    \A fr \in CalendarFrames : \A i \in 1..(Len(fr) - 1) :
        fr[i + 1].Date = fr[i].Date + 1

\* C20: the prediction step succeeds for any latest historical date, and the
\* future calendar it predicts on has exactly one row for each day from the
\* day after the latest historical date through the last day of the target
\* year, in ascending order, so that every forecast date lies after every
\* historical date.
C20_FutureCalendarCoversRestOfYear ==
    /\ pc # "predict_error"
    /\ pc \in {"combine_call", "combine_done", "combine_error"} =>
        LET dates  == {historical_df[i].Date : i \in 1..Len(historical_df)}
            latest == CHOOSE d \in dates : \A e \in dates : e <= d
        IN  /\ Len(future) = EndDay - latest
            /\ \A i \in 1..Len(future) : future[i].Date = latest + i

\* ------------------------------------------------------- rate model claims
Predicted == pc \in {"combine_call", "combine_done", "combine_error"}

\* The columns of the inference matrix before it is aligned
RawInferenceColumns ==
    GetDummiesColumns(ArrFuture(future, Pairs(historical_df), 0),
                      InferCols(historical_df), CatCols(historical_df))

\* C21: the design matrix handed to the rate model at inference has exactly
\* the training columns in training order; a training column that the
\* inference frame lacks is filled with 0 on every row, and no column that
\* was absent from training appears.
C21_InferenceColumnsAreTrainingColumns ==
    Predicted =>
        LET raw     == Range(RawInferenceColumns)
            missing == {k \in 1..Len(model_cols) : model_cols[k] \notin raw}
        IN  /\ model_cols = ModelCols(historical_df)
            /\ X_future_arr.columns = model_cols
            /\ \A i \in 1..Len(X_future_arr.rows) :
                /\ Len(X_future_arr.rows[i]) = Len(model_cols)
                /\ \A k \in missing : X_future_arr.rows[i][k] = 0

\* History with a Suite row that has no arrangement: Room Type_Suite is a
\* training column, no future row is a Suite row, and the column is 0
C21_Witness ==
    /\ pc = "combine_call"
    /\ Len(X_future_arr.rows) > 0
    /\ \E k \in 1..Len(model_cols) :
        /\ model_cols[k] = Dummy("Room Type", Suite)
        /\ model_cols[k] \notin Range(RawInferenceColumns)
        /\ \A i \in 1..Len(X_future_arr.rows) : X_future_arr.rows[i][k] = 0
    /\ \E k \in 1..Len(model_cols) :
        /\ model_cols[k] = Dummy("Room Type", Deluxe)
        /\ \E i \in 1..Len(X_future_arr.rows) : X_future_arr.rows[i][k] = 1

\* C22: the training columns of the rate model include an occupancy column,
\* and at inference that column carries the occupancy forecast of the row's
\* date.
C22_OccupancyForecastFeedsRateModel ==
    Predicted =>
        \E k \in 1..Len(model_cols) :
            /\ model_cols[k] \in {Column("Predicted_Occupancy"), Column("Occupancy Rate")}
            /\ \A i \in 1..Len(X_future_arr.rows) :
                \E j \in 1..Len(occupancy_forecast) :
                    occupancy_forecast[j].Forecasted_Occ = Cell(X_future_arr.rows[i][k])

\* =========================================================================
\* auto_update_data.py and the refresh endpoint of the backend
\* =========================================================================
\* The updater is a process of its own; the backend serves every request in
\* a thread of its own.  A script execution has a start and an end, so that
\* executions can overlap.
ExitCodes == {"ok", "failed"}

\* The order of the scripts in run_data_pipeline and in refresh_data
ScriptAfter(script) == IF script = "extraction" THEN "forecast" ELSE "end"

\* subprocess.run(..., check=True) raises CalledProcessError on a non-zero
\* exit code and run_data_pipeline returns False; after forecast.py comes
\* the POST
UpdaterIgnoringExit(script, exit) ==
    IF ScriptAfter(script) = "end" THEN "post" ELSE ScriptAfter(script)
UpdaterAfter(script, exit) ==
    IF exit = "failed" THEN "returned"
    ELSE IF ScriptAfter(script) = "end" THEN "post" ELSE ScriptAfter(script)

\* os.system(...) returns the exit code, which refresh_data drops; after
\* forecast.py comes fix_transparency.py
RefreshAfter(script, exit) ==
    IF ScriptAfter(script) = "end" THEN "fix_transparency" ELSE ScriptAfter(script)

\* forecast.py that ends with exit code 0 has written
\* data/enhanced_forecasting_2026.csv; the number tells the writings apart
WrittenBy(script, exit) ==
    IF script = "forecast" /\ exit = "ok"
    THEN [data_dir EXCEPT !.enhanced_forecasting_2026 = @ + 1]
    ELSE data_dir

InitServe ==
    /\ CalIdle
    /\ AggIdle
    /\ CombIdle
    /\ RunIdle
    /\ MlIdle
    /\ OptIdle
    /\ ServeIdle
    /\ pc = "serving"

\* python3 auto_update_data.py
StartUpdate ==
    /\ updater.at = "idle"
    /\ updater' = [updater EXCEPT !.at = "extraction"]
    /\ UNCHANGED <<pc, mlVars, optVars, calVars, aggVars, combVars, runVars, req, caused, data_dir,
                   combined_cache>>

\* subprocess.run starts data_extraction.py / forecast.py
UpdaterStartScript ==
    /\ updater.at \in {"extraction", "forecast"}
    /\ ~updater.busy
    /\ updater' = [updater EXCEPT !.busy = TRUE, ![updater.at] = "running"]
    /\ caused' = [caused EXCEPT ![updater.at] = @ + 1]
    /\ UNCHANGED <<pc, mlVars, optVars, calVars, aggVars, combVars, runVars, req, data_dir,
                   combined_cache>>

\* The script exits; check=True decides how run_data_pipeline goes on
UpdaterFinishScript ==
    /\ updater.busy
    /\ \E exit \in ExitCodes :
        LET next == UpdaterAfter(updater.at, exit)
        IN  /\ updater' = [updater EXCEPT !.busy = FALSE, ![updater.at] = exit,
                                          !.at = next,
                                          !.result = IF next = "returned" THEN "false" ELSE @]
            /\ data_dir' = WrittenBy(updater.at, exit)
    /\ UNCHANGED <<pc, mlVars, optVars, calVars, aggVars, combVars, runVars, req, caused,
                   combined_cache>>

\* requests.post(backend_url + "/api/refresh", timeout=30): the backend
\* takes the request, or the connection fails and run_data_pipeline prints
\* a warning and returns True
PostRefresh ==
    /\ updater.at = "post"
    /\ \/ /\ updater' = [updater EXCEPT !.at = "waiting"]
          /\ req' = [req EXCEPT ![0] = [NoRequest EXCEPT !.at = "extraction"]]
       \/ /\ updater' = [updater EXCEPT !.at = "returned", !.result = "true"]
          /\ UNCHANGED req
    /\ UNCHANGED <<pc, mlVars, optVars, calVars, aggVars, combVars, runVars, caused, data_dir,
                   combined_cache>>

\* The response arrives or the 30 seconds pass: either way
\* run_data_pipeline returns True
UpdaterReturns ==
    /\ updater.at = "waiting"
    /\ updater' = [updater EXCEPT !.at = "returned", !.result = "true"]
    /\ UNCHANGED <<pc, mlVars, optVars, calVars, aggVars, combVars, runVars, req, caused, data_dir,
                   combined_cache>>

\* A client sends POST /api/refresh
ReceiveRefresh(r) ==
    /\ r # 0
    /\ req[r].at = "none"
    /\ req' = [req EXCEPT ![r] = [NoRequest EXCEPT !.at = "extraction"]]
    /\ UNCHANGED <<pc, mlVars, optVars, calVars, aggVars, combVars, runVars, updater, caused, data_dir,
                   combined_cache>>

\* refresh_data: os.system starts data_extraction.py / forecast.py
RefreshStartScript(r) ==
    /\ req[r].at \in {"extraction", "forecast"}
    /\ ~req[r].busy
    /\ req' = [req EXCEPT ![r].busy = TRUE]
    /\ caused' = IF r = 0 THEN [caused EXCEPT ![req[r].at] = @ + 1] ELSE caused
    /\ UNCHANGED <<pc, mlVars, optVars, calVars, aggVars, combVars, runVars, updater, data_dir,
                   combined_cache>>

\* The script exits and refresh_data goes on to its next statement
RefreshFinishScript(r) ==
    /\ req[r].busy
    /\ \E exit \in ExitCodes :
        /\ data_dir' = WrittenBy(req[r].at, exit)
        /\ req' = [req EXCEPT ![r].busy = FALSE,
                              ![r].failed = @ \/ exit = "failed",
                              ![r].wrote = IF data_dir' # data_dir
                                           THEN data_dir'.enhanced_forecasting_2026
                                           ELSE @,
                              ![r].at = RefreshAfter(req[r].at, exit)]
    /\ UNCHANGED <<pc, mlVars, optVars, calVars, aggVars, combVars, runVars, updater, caused,
                   combined_cache>>

\* os.system("... python3 scripts/fix_transparency.py"): the repository has
\* no such script, python3 exits with an error and nothing is written
FixTransparency(r) ==
    /\ req[r].at = "fix_transparency"
    /\ req' = [req EXCEPT ![r].at = "load"]
    /\ UNCHANGED <<pc, mlVars, optVars, calVars, aggVars, combVars, runVars, updater, caused, data_dir,
                   combined_cache>>

\* self.load_cached_data(): data_cache['combined'] = pd.read_csv(combined_df.csv);
\* then refresh_data returns True and the endpoint answers success
RefreshLoad(r) ==
    /\ req[r].at = "load"
    /\ combined_cache' = data_dir.combined_df
    /\ req' = [req EXCEPT ![r].at = "returned", ![r].response = "success"]
    /\ UNCHANGED <<pc, mlVars, optVars, calVars, aggVars, combVars, runVars, updater, caused, data_dir>>

NextServe ==
    \/ StartUpdate
    \/ UpdaterStartScript
    \/ UpdaterFinishScript
    \/ PostRefresh
    \/ UpdaterReturns
    \/ \E r \in Requests :
        \/ ReceiveRefresh(r)
        \/ RefreshStartScript(r)
        \/ RefreshFinishScript(r)
        \/ FixTransparency(r)
        \/ RefreshLoad(r)

SpecServe == InitServe /\ [][NextServe]_vars

\* ------------------------------------------------------------ serve claims
\* The number of script executions in progress
Running == B2N(updater.busy) + Cardinality({r \in Requests : req[r].busy})

\* C23: at no time are two script executions in progress.
C23_OneExecutionAtATime == Running <= 1

\* C26: when a refresh whose scripts all succeeded has completed, and nothing
\* else ran, data_cache['combined'] holds the combined table that the
\* forecast execution of this refresh wrote.
C26_CacheHoldsTableOfTheRun ==
    \A r \in Requests \ {0} :
        (/\ req[r].at = "returned"
         /\ ~req[r].failed
         /\ updater.at = "idle"
         /\ \A q \in Requests \ {r} : req[q].at = "none")
            => /\ req[r].wrote > 0
               /\ combined_cache = req[r].wrote

\* C27: a refresh request is answered with success only if both scripts it
\* launched exited with code 0.
C27_SuccessOnlyIfScriptsSucceeded ==
    \A r \in Requests : req[r].response = "success" => ~req[r].failed

\* C28: run_data_pipeline starts forecast.py only after data_extraction.py
\* has exited with code 0, and sends the refresh request only after both
\* have; after a failed step nothing further is started and the result is
\* False.
C28_StepsInOrderAfterSuccess ==
    /\ updater.forecast # "none" => updater.extraction = "ok"
    /\ (updater.at \in {"post", "waiting"} \/ req[0].at # "none")
            => updater.extraction = "ok" /\ updater.forecast = "ok"
    /\ updater.result = "true" => updater.extraction = "ok" /\ updater.forecast = "ok"
    /\ "failed" \in {updater.extraction, updater.forecast}
            => updater.at = "returned" /\ updater.result = "false"

\* forecast.py has failed after a successful extraction: no request was sent
C28_Witness ==
    /\ updater.extraction = "ok"
    /\ updater.forecast = "failed"
    /\ updater.at = "returned"
    /\ req[0].at = "none"

\* C29: when a successful call of run_data_pipeline is over, together with
\* the refresh it requested, data_extraction.py and forecast.py have each
\* been executed exactly once because of it.
C29_EachScriptExecutedOnce ==
    (/\ updater.result = "true"
     /\ req[0].at \in {"none", "returned"})
        => caused = [extraction |-> 1, forecast |-> 1]

\* ------------------------------------------------- holiday table claims
\* C25: a future date that the holiday table lists under national or joint
\* is flagged Is_NationalHoliday, one listed under school is flagged
\* Is_SchoolHoliday and one listed under event is flagged Is_Event, also when
\* the table lists the date under several kinds, in any row order.
C25_EveryListedKindIsFlagged ==
    pc = "future_done" =>
        \A i \in 1..Len(future) : \A h \in 1..Len(holidays_df) :
            holidays_df[h].Date = future[i].Date =>
                /\ holidays_df[h].Kind \in {"national", "joint"}
                        => future[i].Is_NationalHoliday
                /\ holidays_df[h].Kind = "school" => future[i].Is_SchoolHoliday
                /\ holidays_df[h].Kind = "event" => future[i].Is_Event

\* ------------------------------------------------ block and bridge columns
\* C30: in the table combine_forecasts returns, holiday_block_length is 0
\* on every row and Is_Bridge is false on every historical row, whatever
\* block lengths and bridge flags the feature builder computed for the dates.
C30_BlockLengthZeroAndNoHistoricalBridge ==
    pc = "combine_done" =>
        \A i \in 1..Len(final_df) :
            /\ final_df[i].holiday_block_length = 0
            /\ final_df[i].origin = "historical" => final_df[i].Is_Bridge = FALSE

\* The feature builder found a bridge day and a holiday block in history and
\* a holiday block in the future calendar; each of these dates has a row in
\* the combined table
C30_Witness ==
    /\ pc = "combine_done"
    /\ \E e \in 1..Len(enrich), i \in 1..Len(final_df) :
        /\ enrich[e].Is_Bridge
        /\ final_df[i].origin = "historical"
        /\ final_df[i].Date = enrich[e].Date
    /\ \E e \in 1..Len(enrich), i \in 1..Len(final_df) :
        /\ enrich[e].Holiday_Duration > 0
        /\ final_df[i].origin = "historical"
        /\ final_df[i].Date = enrich[e].Date
    /\ \E f \in 1..Len(future), i \in 1..Len(final_df) :
        /\ future[f].Holiday_Duration > 0
        /\ final_df[i].origin = "forecast"
        /\ final_df[i].Date = future[f].Date

\* =========================================================================
\* The two scripts run with some of their optional inputs missing
\* =========================================================================
\* data/holidays_info.csv and data/maintenance_cleaned.csv when they exist
HolidaysInfo ==
    <<[Date |-> 1, Kind |-> "national"], [Date |-> 2, Kind |-> "school"],
      [Date |-> 2, Kind |-> "event"], [Date |-> 1, Kind |-> "fasting"],
      [Date |-> MaxDay + 1, Kind |-> "joint"], [Date |-> EndDay, Kind |-> "national"]>>
MaintenanceCleaned == <<[Date |-> 1, Quantity |-> 1]>>

\* holidays_from_csv(path, kind_filter): no file, no dates
HolidaysFromCsv(present, kind_filter) ==
    IF "holidays_info" \notin present THEN {}
    ELSE {HolidaysInfo[i].Date :
            i \in {j \in 1..Len(HolidaysInfo) : HolidaysInfo[j].Kind = kind_filter}}

\* load_maintenance_data(path): no file, an empty frame
LoadMaintenanceData(present) ==
    IF "maintenance_cleaned" \notin present THEN <<>> ELSE MaintenanceCleaned

\* A row of data/dataset_processed.csv as forecast.py reads it back: the
\* columns of final and Is_SchoolHoliday; a blank arrangement comes back as a
\* missing value
DatasetRow(f, school_holidays_set) ==
    [Date              |-> f.Date,
     Room_Type         |-> f.Room_Type,
     Arrangement       |-> IF f.Arrangement = <<>> THEN None ELSE f.Arrangement,
     Average_Room_Rate |-> Cell(f.Average_Room_Rate),
     Occupancy_Rate    |-> Cell(f.Occupancy_Rate),
     Is_Holiday        |-> f.Is_Holiday,
     Is_Weekend        |-> f.Is_Weekend,
     Is_Event          |-> f.Is_Event,
     Is_SchoolHoliday  |-> f.Date \in school_holidays_set]

\* One paid reservation of one night with its arrangement, and one more
\* that may be complimentary
PaidNights ==
    {Reservation(Ts(d, 0), Ts(d + 1, 0), RawDeluxe, RB, Room101, FIT, Rate(100)) :
        d \in AggDates}
OtherNights ==
    {Reservation(Ts(d, 0), Ts(d + 1, 0), RawBusiness, RB, Room102, seg, Rate(200)) :
        d \in AggDates, seg \in {FIT, Comp}}

InitOptional ==
    /\ RunIdle
    /\ MlIdle
    /\ ServeIdle
    /\ CalIdle
    /\ CombIdle
    /\ pc = "extraction_main"
    /\ inputs \in SUBSET OptionalInputs
    /\ source_df \in {<<a, b>> : a \in PaidNights, b \in OtherNights}
    /\ inventory_per_room_type \in InventoryMaps
    /\ maintenance_df = <<>>
    /\ holidays_set = {}
    /\ events_set = {}
    /\ fasting_set = {}
    /\ daily = <<>>
    /\ features_df = <<>>

\* data_extraction.py __main__: the holiday sets and the maintenance table
\* come from the files that exist; build_feature_dataset; Is_SchoolHoliday;
\* the dataset is written
ExtractionMain ==
    /\ pc = "extraction_main"
    /\ holidays_set' = HolidaysFromCsv(inputs, "national")
                            \cup HolidaysFromCsv(inputs, "joint")
    /\ events_set' = HolidaysFromCsv(inputs, "event")
    /\ fasting_set' = HolidaysFromCsv(inputs, "fasting")
    /\ maintenance_df' = LoadMaintenanceData(inputs)
    /\ daily' = ExpandStaysToDailyRows(source_df)
    /\ features_df' = BuildFeatureDataset(daily', inventory_per_room_type,
                                          maintenance_df', holidays_set',
                                          events_set', fasting_set')
    /\ historical_df' =
            Arr([i \in 1..Len(features_df') |->
                    DatasetRow(features_df'[i], HolidaysFromCsv(inputs, "school"))],
                Len(features_df'))
    /\ pc' = "forecast_main"
    /\ UNCHANGED <<mlVars, optVars, serveVars, runVars, calVars, source_df,
                   inventory_per_room_type, occupancy_forecast, arr_forecast, final_df,
                   roundtrip_df>>

\* forecast.py __main__: pd.read_csv("data/holidays_info.csv") raises
\* FileNotFoundError when the file does not exist
ForecastMain ==
    /\ pc = "forecast_main"
    /\ IF "holidays_info" \in inputs
       THEN /\ holidays_df' = HolidaysInfo
            /\ pc' = "predict_call"
       ELSE /\ pc' = "main_error"
            /\ UNCHANGED holidays_df
    /\ UNCHANGED <<mlVars, optVars, serveVars, runVars, aggVars, combVars, hist_df, enrich,
                   start_date, future>>

NextOptional == ExtractionMain \/ ForecastMain \/ MlPredictOccupancyAndArr \/ Combine

SpecOptional == InitOptional /\ [][NextOptional]_vars

\* --------------------------------------------------- optional input claims
\* C24: with an optional input missing the pipeline completes: without the
\* holiday table every holiday, event and school flag is false in the
\* dataset and in the future calendar; without the maintenance table the
\* maintenance count is 0; without an inventory map the inventory of a date
\* is the number of distinct rooms seen on it.
C24_MissingInputsAreTolerated ==
    /\ pc # "main_error"
    /\ "holidays_info" \notin inputs =>
        /\ \A i \in 1..Len(historical_df) :
            /\ ~historical_df[i].Is_Holiday
            /\ ~historical_df[i].Is_Event
            /\ ~historical_df[i].Is_SchoolHoliday
        /\ \A i \in 1..Len(future) :
            /\ ~future[i].Is_NationalHoliday
            /\ ~future[i].Is_Event
            /\ ~future[i].Is_SchoolHoliday
    /\ "maintenance_cleaned" \notin inputs =>
        \A i \in 1..Len(features_df) : features_df[i].Rooms_Maintenance = 0
    /\ inventory_per_room_type = <<>> =>
        \A i \in 1..Len(features_df) :
            features_df[i].Room_Inventory = Cardinality(RoomsOn(features_df[i].Date, 1..Len(daily)))

====
